---- MODULE Spec2Model ----
(***************************************************************************)
(* Model of the Auto-Gains backend:                                        *)
(*   - imu_dynamic.py : StreamingPCA (projector), StreamingSmoother,       *)
(*                      StreamingRepCounter (peak/valley detector),        *)
(*                      StreamingPipeline (projector -> smoother ->        *)
(*                      detector)                                          *)
(*   - ws_server.py   : RepServer (reader thread, handoff queue, consumer  *)
(*                      loop, broadcast, per-viewer connection handlers)   *)
(*                                                                         *)
(* Numbers.  The detector works on floats; the model works on exact        *)
(* rationals with the common denominator Scale = BaselineWindow!, so the   *)
(* mean of a window of 1..BaselineWindow integers is an integer number of  *)
(* units 1/Scale.  Every centered value, tracker, baseline and amplitude   *)
(* is held in those units; thresholds are multiplied by Scale where they   *)
(* are compared.                                                           *)
(***************************************************************************)
EXTENDS Integers, Sequences, FiniteSets, TLC

(***************************************************************************)
(* Bounds of the model.  The sizes the broker configures are scaled down:  *)
(* it passes baseline_window 50 and min_samples_between_reps 20, creates   *)
(* the queue with maxsize 1000 and collects 200 samples for classifying.   *)
(***************************************************************************)
\* capacity of the detector's recent-sample window (baseline_window)
BaselineWindow == 3
\* minimum spacing between counted repetitions (min_samples_between_reps)
MinSamplesBetweenReps == 2
\* number of process_sample calls explored after construction or reset
MaxCalls == 8
\* number of process_sample calls explored with a longer minimum spacing
MaxEarlyCalls == 5
\* with every viewer: samples the reader thread produces
MaxSamples == 2
\* with every viewer: messages the viewers send, all together
MaxMsgs == 1
\* with one viewer: samples the reader thread produces
SoloSamples == 3
\* with one viewer: messages the viewer sends
SoloMsgs == 2
\* with one viewer that sends nothing: samples the reader thread produces
SessionSamples == 6
\* capacity of the handoff queue (asyncio.Queue(maxsize=...))
QueueMaxsize == 2
\* samples a classification buffer collects (AUTO_DETECT_SAMPLES)
AutoDetectSamples == 2

(***************************************************************************)
(* Program constants.                                                      *)
(***************************************************************************)
\* amplitude_threshold handed to the pipeline by the broker
AmplitudeThreshold == 21
\* pca_warmup handed to the pipeline by the broker
PcaWarmup == 30
\* the fixed hysteresis margin of the detector
Hysteresis == 3
\* a 'speed' message every SpeedEvery samples
SpeedEvery == 3
\* a 'status' heartbeat every StatusEvery samples
StatusEvery == 50

\* smoothed-signal values fed to the detector
Signals == {0, 20, 22, 44}
\* smoothed-signal values fed to the broker's pipeline
ServerSignals == {0, 60}
\* the viewers (websocket connections) that may connect
Viewers == {"v1", "v2"}
\* what a viewer may send: text that is not JSON, JSON that is not an object,
\* an object without a known action, and the two requests
MessageKinds == {"not_json", "not_object", "no_action", "reset", "start_auto_detect"}
\* how a classification may end: a label, an exception, no classifier
Classifications == {"label", "raised", "unavailable"}
\* the runs explored: what arrives from the reader and from the viewers
Profiles ==
    { [samples |-> MaxSamples,     msgs |-> MaxMsgs,  viewers |-> Viewers],
      [samples |-> SoloSamples,    msgs |-> SoloMsgs, viewers |-> {"v1"}],
      [samples |-> SessionSamples, msgs |-> 0,        viewers |-> {"v1"}] }

(***************************************************************************)
(* State.  One RepServer with its pipeline; the harness variables drive a  *)
(* pipeline directly in the specifications about the detector alone.       *)
(***************************************************************************)
VARIABLES
    running,            \* RepServer.running
    clients,            \* RepServer.clients: the viewer set
    pipeline,           \* RepServer.pipeline: None or Some(StreamingPipeline)
    sample_idx,         \* RepServer.sample_idx
    auto_detect_buffer, \* RepServer.auto_detect_buffer: None or Some(list)
    sample_queue,       \* RepServer.sample_queue: the handoff queue
    callbacks,          \* put_nowait calls scheduled by call_soon_threadsafe
                        \* and not yet run by the event loop
    produced,           \* samples the reader thread has produced so far
    conn,               \* per viewer: the state of its connection
    hpc,                \* per viewer: where its _handle_client coroutine is
    nmsgs,              \* messages the handlers have received
    consumer,           \* the _process_samples task: position and locals
    handed,             \* samples handed to pipeline.process_sample, in order
    events,             \* the _broadcast calls made, in order
    lastBroadcast,      \* how the last _broadcast call that ended, ended
    dropped,            \* samples whose put_nowait raised QueueFull
    sessionReps,        \* the rep_count of every 'rep' message broadcast since
                        \* the last _reset_pipeline, in order
    discarded,          \* the classification buffer the last 'reset' request
                        \* that found one open closed, if any
    limits,             \* what the environment does in this run: how many
                        \* samples and messages arrive, which viewers connect
    result,             \* harness: the dict returned by the last process_sample
    twin,               \* harness: a pipeline constructed afresh at the last
                        \* reset and fed the same samples since
    twinResult,         \* harness: what the twin returned last
    repAt,              \* harness: the call numbers (since construction or
                        \* reset) at which rep_count grew
    transition,         \* harness: what the last call did at the detector's
                        \* valley-to-peak transition, if it made one
    epoch,              \* harness: how the current detector came to be
    op,                 \* harness: the operation that led to this state
    wave,               \* harness: the periodic input signal, if any
    smoother,           \* harness: a StreamingSmoother driven on its own
    smoothIn,           \* harness: the inputs of its update calls since
                        \* construction or the last reset(), in order
    smoothOut,          \* harness: what those calls returned, in order
    pca,                \* harness: a StreamingPCA driven on its own
    pcaIn,              \* harness: the samples of its update calls, in order
    pcaOut,             \* harness: what the last update call returned
    pcaEig,             \* harness: the eigenvector eigh returned in the last
                        \* update call, if that call decomposed
    reader              \* the reader thread (_serial_reader or _mock_reader):
                        \* its position and locals, and what it has read

serverVars == <<running, clients, auto_detect_buffer, sample_queue, callbacks, produced,
                conn, hpc, nmsgs, consumer, handed, events, lastBroadcast, dropped,
                limits, sessionReps, discarded>>

\* the components driven on their own
smoothVars == <<smoother, smoothIn, smoothOut>>

pcaVars == <<pca, pcaIn, pcaOut, pcaEig>>

unitVars == <<smoothVars, pcaVars, reader>>

harnessVars == <<result, twin, twinResult, repAt, transition, epoch, op, wave, unitVars>>

vars == <<pipeline, sample_idx, serverVars, harnessVars>>

(***************************************************************************)
(* Optional values: Python's None and a present value.                     *)
(***************************************************************************)
None == <<>>
Some(v) == <<v>>
Val(o) == o[1]

RECURSIVE Factorial(_)
Factorial(n) == IF n <= 1 THEN 1 ELSE n * Factorial(n - 1)

\* the fixed-point unit: one signal unit is Scale model units
Scale == Factorial(BaselineWindow)

RECURSIVE SumSeq(_)
SumSeq(s) == IF s = <<>> THEN 0 ELSE Head(s) + SumSeq(Tail(s))

\* np.mean of a non-empty list of signal values, in units of 1/Scale
Mean(s) == (SumSeq(s) * Scale) \div Len(s)

(***************************************************************************)
(* Exact rationals for the projector and the smoother, whose arithmetic is *)
(* not on the detector's grid: a number is [num, den] in lowest terms with *)
(* den > 0.  The code computes in binary floating point; the model         *)
(* computes the same expressions exactly.                                  *)
(***************************************************************************)
Abs(n) == IF n < 0 THEN -n ELSE n

RECURSIVE Gcd(_, _)
Gcd(a, b) == IF b = 0 THEN a ELSE Gcd(b, a % b)

Rat(n, d) ==
    LET g == Gcd(Abs(n), Abs(d))
        sign == IF d < 0 THEN -1 ELSE 1
    IN  [num |-> sign * (n \div g), den |-> sign * (d \div g)]

RInt(n) == [num |-> n, den |-> 1]

RAdd(a, b) ==
    LET g == Gcd(a.den, b.den)
    IN  Rat(a.num * (b.den \div g) + b.num * (a.den \div g), (a.den \div g) * b.den)

RNeg(a) == [num |-> -a.num, den |-> a.den]

RSub(a, b) == RAdd(a, RNeg(b))

RMul(a, b) ==
    LET g1 == Gcd(Abs(a.num), b.den)
        g2 == Gcd(Abs(b.num), a.den)
    IN  Rat((a.num \div g1) * (b.num \div g2), (a.den \div g2) * (b.den \div g1))

\* a / n for an integer n > 0
RDivInt(a, n) == RMul(a, [num |-> 1, den |-> n])

RLess(a, b) == RSub(a, b).num < 0

(***************************************************************************)
(* StreamingPCA.  Vectors are triples of rationals, the accumulator C a    *)
(* triple of rows.  np.linalg.eigh is a numerical routine: of the dominant *)
(* eigenvector it returns the model knows that it is a unit vector, of     *)
(* either sign; the vector is an input of the step, drawn from             *)
(* EighResults, so every run of the code is a run of the model.            *)
(***************************************************************************)
\* warmup of the projectors driven on their own (the broker passes 30)
Warmup == 2

Zeros == <<RInt(0), RInt(0), RInt(0)>>

VSub(a, b) == [i \in 1 .. 3 |-> RSub(a[i], b[i])]

VAdd(a, b) == [i \in 1 .. 3 |-> RAdd(a[i], b[i])]

VNeg(a) == [i \in 1 .. 3 |-> RNeg(a[i])]

VDivInt(a, n) == [i \in 1 .. 3 |-> RDivInt(a[i], n)]

\* np.dot of two vectors
Dot(a, b) == RAdd(RAdd(RMul(a[1], b[1]), RMul(a[2], b[2])), RMul(a[3], b[3]))

\* np.outer
Outer(a, b) == [i \in 1 .. 3 |-> [j \in 1 .. 3 |-> RMul(a[i], b[j])]]

MAdd(A, B) == [i \in 1 .. 3 |-> [j \in 1 .. 3 |-> RAdd(A[i][j], B[i][j])]]

\* np.linalg.norm(v), held as its square
Norm(v) == [squared |-> Dot(v, v)]

\* np.asarray(x, dtype=float) of an integer sample
AsArray(x) == [i \in 1 .. 3 |-> RInt(x[i])]

\* unit vectors eigh may return as the last column
EighResults ==
    LET u == <<Rat(3, 5), Rat(4, 5), RInt(0)>>
        e1 == <<RInt(1), RInt(0), RInt(0)>>
        e3 == <<RInt(0), RInt(0), RInt(1)>>
    IN  {e1, VNeg(e1), u, VNeg(u), e3, VNeg(e3)}

\* __init__
StreamingPCA_init(warmup) ==
    [warmup |-> warmup, n |-> 0, mean |-> Zeros, C |-> <<Zeros, Zeros, Zeros>>,
     prev_pc1 |-> None]

\* mutant of WelfordMean: the count before this sample divides
WelfordMeanStaleCount(mean, x, n) ==
    IF n = 1 THEN x ELSE VAdd(mean, VDivInt(VSub(x, mean), n - 1))

\* self.mean += delta / self.n, with n the count including this sample
WelfordMean(mean, x, n) == VAdd(mean, VDivInt(VSub(x, mean), n))

\* mutant of SignLock: the eigenvector is stored as computed
SignLockMissing(pc1, prev_pc1) == pc1

\* `if self.prev_pc1 is not None: if np.dot(pc1, self.prev_pc1) < 0: pc1 = -pc1'
SignLock(pc1, prev_pc1) ==
    IF prev_pc1 # None /\ RLess(Dot(pc1, Val(prev_pc1)), RInt(0)) THEN VNeg(pc1) ELSE pc1

\* update(x), with eig the last column eigh returns: the new object and the
\* value returned, a norm during warm-up and a projection afterwards
StreamingPCA_update(p, x, eig) ==
    LET n == p.n + 1
        delta == VSub(x, p.mean)
        mean == WelfordMean(p.mean, x, n)
        delta2 == VSub(x, mean)
        p1 == [p EXCEPT !.n = n, !.mean = mean, !.C = MAdd(@, Outer(delta, delta2))]
    IN  IF n < p.warmup
        THEN [p |-> p1, out |-> [kind |-> "norm", norm |-> Norm(delta2), value |-> RInt(0)],
              decomposed |-> FALSE]
        ELSE LET pc1 == SignLock(eig, p.prev_pc1)
             IN  [p |-> [p1 EXCEPT !.prev_pc1 = Some(pc1)],
                  out |-> [kind |-> "projection", norm |-> Norm(Zeros),
                           value |-> Dot(delta2, pc1)],
                  decomposed |-> TRUE]

(***************************************************************************)
(* StreamingSmoother                                                       *)
(***************************************************************************)
\* smooth_alpha handed to the pipeline by the broker: 0.15
SmoothAlpha == [num |-> 3, den |-> 20]

\* __init__
StreamingSmoother_init(alpha) == [alpha |-> alpha, value |-> None]

\* mutant of StreamingSmoother_update: the two weights are exchanged
SmootherUpdateWeightsExchanged(s, x) ==
    LET value == IF s.value = None THEN x
                 ELSE RAdd(RMul(RSub(RInt(1), s.alpha), x), RMul(s.alpha, Val(s.value)))
    IN  [s |-> [s EXCEPT !.value = Some(value)], out |-> value]

\* update: the new object and the value returned
StreamingSmoother_update(s, x) ==
    LET value == IF s.value = None THEN x
                 ELSE RAdd(RMul(s.alpha, x), RMul(RSub(RInt(1), s.alpha), Val(s.value)))
    IN  [s |-> [s EXCEPT !.value = Some(value)], out |-> value]

\* mutant of StreamingSmoother_reset: the value is kept
SmootherResetKeepsValue(s) == s

\* reset
StreamingSmoother_reset(s) == [s EXCEPT !.value = None]

(***************************************************************************)
(* StreamingRepCounter                                                     *)
(***************************************************************************)
\* mutant of StreamingRepCounter: the debounce counter starts as if the
\* minimum spacing had already passed
StreamingRepCounterDebounceElapsed(amplitude_threshold, min_samples_between_reps, baseline_window) ==
    [ amplitude_threshold      |-> amplitude_threshold,
      min_samples_between_reps |-> min_samples_between_reps,
      baseline_window          |-> baseline_window,
      state                    |-> "WAITING_FOR_PEAK",
      rep_count                |-> 0,
      samples_since_last_rep   |-> min_samples_between_reps,
      current_peak             |-> None,
      current_valley           |-> None,
      peak_sample_idx          |-> None,
      valley_sample_idx        |-> None,
      recent_samples           |-> <<>>,
      baseline                 |-> 0,
      signal_history           |-> <<>>,
      rep_detection_samples    |-> <<>>,
      rep_amplitudes           |-> <<>> ]

\* __init__: the state after construction
StreamingRepCounter(amplitude_threshold, min_samples_between_reps, baseline_window) ==
    [ amplitude_threshold      |-> amplitude_threshold,
      min_samples_between_reps |-> min_samples_between_reps,
      baseline_window          |-> baseline_window,
      state                    |-> "WAITING_FOR_PEAK",
      rep_count                |-> 0,
      samples_since_last_rep   |-> 0,
      current_peak             |-> None,
      current_valley           |-> None,
      peak_sample_idx          |-> None,
      valley_sample_idx        |-> None,
      recent_samples           |-> <<>>,
      baseline                 |-> 0,
      signal_history           |-> <<>>,
      rep_detection_samples    |-> <<>>,
      rep_amplitudes           |-> <<>> ]

\* mutant of UpdateRecentSamples: pop() instead of pop(0), the newest sample
\* is evicted
UpdateRecentSamplesPopNewest(recent_samples, signal_value, baseline_window) ==
    LET appended == Append(recent_samples, signal_value)
    IN  IF Len(appended) > baseline_window
        THEN SubSeq(appended, 1, Len(appended) - 1) ELSE appended

\* recent_samples.append(signal_value); pop(0) when longer than the window
UpdateRecentSamples(recent_samples, signal_value, baseline_window) ==
    LET appended == Append(recent_samples, signal_value)
    IN  IF Len(appended) > baseline_window THEN Tail(appended) ELSE appended

\* mutant of CountsRep: the debounce test is missing
CountsRepWithoutDebounce(amplitude, samples_since_last_rep, amplitude_threshold, min_samples_between_reps) ==
    amplitude > amplitude_threshold * Scale

\* the gate of a counted repetition
CountsRep(amplitude, samples_since_last_rep, amplitude_threshold, min_samples_between_reps) ==
    /\ amplitude > amplitude_threshold * Scale
    /\ samples_since_last_rep > min_samples_between_reps

\* mutant of RecordRep: the debounce counter is not restarted
RecordRepKeepingDebounce(d, amplitude) ==
    [d EXCEPT !.rep_count = @ + 1,
              !.rep_detection_samples = Append(@, Val(d.valley_sample_idx)),
              !.rep_amplitudes = Append(@, amplitude)]

\* mutant of RecordRep: the amplitude is not recorded
RecordRepWithoutAmplitude(d, amplitude) ==
    [d EXCEPT !.rep_count = @ + 1,
              !.rep_detection_samples = Append(@, Val(d.valley_sample_idx)),
              !.samples_since_last_rep = 0]

\* the body of the gate: count, record, restart the debounce counter
RecordRep(d, amplitude) ==
    [d EXCEPT !.rep_count = @ + 1,
              !.rep_detection_samples = Append(@, Val(d.valley_sample_idx)),
              !.rep_amplitudes = Append(@, amplitude),
              !.samples_since_last_rep = 0]

\* mutant of WaitingForPeak: the hysteresis margin is missing
WaitingForPeakWithoutMargin(d, signal_centered, idx) ==
    LET d1 == IF d.current_peak = None \/ signal_centered > Val(d.current_peak)
              THEN [d EXCEPT !.current_peak = Some(signal_centered),
                             !.peak_sample_idx = Some(idx)]
              ELSE d
        d2 == IF d1.current_peak # None /\ signal_centered < Val(d1.current_peak)
              THEN [d1 EXCEPT !.state = "WAITING_FOR_VALLEY",
                              !.current_valley = Some(signal_centered),
                              !.valley_sample_idx = Some(idx)]
              ELSE d1
    IN  [d |-> d2, rep_detected |-> FALSE, amplitude |-> 0]

\* state == 'WAITING_FOR_PEAK'
WaitingForPeak(d, signal_centered, idx) ==
    LET d1 == IF d.current_peak = None \/ signal_centered > Val(d.current_peak)
              THEN [d EXCEPT !.current_peak = Some(signal_centered),
                             !.peak_sample_idx = Some(idx)]
              ELSE d
        d2 == IF d1.current_peak # None
                 /\ signal_centered < Val(d1.current_peak) - Hysteresis * Scale
              THEN [d1 EXCEPT !.state = "WAITING_FOR_VALLEY",
                              !.current_valley = Some(signal_centered),
                              !.valley_sample_idx = Some(idx)]
              ELSE d1
    IN  [d |-> d2, rep_detected |-> FALSE, amplitude |-> 0]

\* mutant of WaitingForValley: the valley tracker is not cleared on the way
\* back to WAITING_FOR_PEAK
WaitingForValleyKeepsValley(d, signal_centered, idx) ==
    LET d1 == IF signal_centered < Val(d.current_valley)
              THEN [d EXCEPT !.current_valley = Some(signal_centered),
                             !.valley_sample_idx = Some(idx)]
              ELSE d
    IN  IF signal_centered > Val(d1.current_valley) + Hysteresis * Scale
        THEN LET amplitude == Val(d1.current_peak) - Val(d1.current_valley)
                 counted == CountsRep(amplitude, d1.samples_since_last_rep,
                                      d1.amplitude_threshold, d1.min_samples_between_reps)
                 d2 == IF counted THEN RecordRep(d1, amplitude) ELSE d1
                 d3 == [d2 EXCEPT !.state = "WAITING_FOR_PEAK",
                                  !.current_peak = Some(signal_centered),
                                  !.peak_sample_idx = Some(idx)]
             IN  [d |-> d3, rep_detected |-> counted, amplitude |-> amplitude]
        ELSE [d |-> d1, rep_detected |-> FALSE, amplitude |-> 0]

\* state == 'WAITING_FOR_VALLEY'
WaitingForValley(d, signal_centered, idx) ==
    LET d1 == IF signal_centered < Val(d.current_valley)
              THEN [d EXCEPT !.current_valley = Some(signal_centered),
                             !.valley_sample_idx = Some(idx)]
              ELSE d
    IN  IF signal_centered > Val(d1.current_valley) + Hysteresis * Scale
        THEN LET amplitude == Val(d1.current_peak) - Val(d1.current_valley)
                 counted == CountsRep(amplitude, d1.samples_since_last_rep,
                                      d1.amplitude_threshold, d1.min_samples_between_reps)
                 d2 == IF counted THEN RecordRep(d1, amplitude) ELSE d1
                 d3 == [d2 EXCEPT !.state = "WAITING_FOR_PEAK",
                                  !.current_peak = Some(signal_centered),
                                  !.peak_sample_idx = Some(idx),
                                  !.current_valley = None]
             IN  [d |-> d3, rep_detected |-> counted, amplitude |-> amplitude]
        ELSE [d |-> d1, rep_detected |-> FALSE, amplitude |-> 0]

\* process_sample: the new detector state and the returned dict
StreamingRepCounter_process_sample(d, signal_value, idx) ==
    LET recent == UpdateRecentSamples(d.recent_samples, signal_value, d.baseline_window)
        baseline == Mean(recent)
        signal_centered == signal_value * Scale - baseline
        d0 == [d EXCEPT !.samples_since_last_rep = @ + 1,
                        !.recent_samples = recent,
                        !.baseline = baseline]
        r == IF d0.state = "WAITING_FOR_PEAK"
             THEN WaitingForPeak(d0, signal_centered, idx)
             ELSE WaitingForValley(d0, signal_centered, idx)
        d9 == [r.d EXCEPT !.signal_history = Append(@, signal_value)]
    IN  [ d |-> d9,
          result |-> [ rep_count    |-> d9.rep_count,
                       state        |-> d9.state,
                       baseline     |-> d9.baseline,
                       rep_detected |-> r.rep_detected,
                       amplitude    |-> IF d9.state = "WAITING_FOR_VALLEY"
                                        THEN r.amplitude ELSE 0 ] ]

\* reset: __init__ again with the configured parameters
StreamingRepCounter_reset(d) ==
    StreamingRepCounter(d.amplitude_threshold, d.min_samples_between_reps, d.baseline_window)

(***************************************************************************)
(* StreamingPipeline.  The projector (StreamingPCA) and the smoother       *)
(* (StreamingSmoother) compute floating-point values from the raw sample;  *)
(* here the value pc1_smooth that reaches the detector is an input of the  *)
(* step, drawn from Signals: every run of the code is a run of the model.  *)
(* The projector keeps its sample count n, the smoother its last output.   *)
(***************************************************************************)
StreamingPCA(warmup) == [warmup |-> warmup, n |-> 0, prev_pc1 |-> None]

StreamingSmoother == [value |-> None]

StreamingPipeline(amplitude_threshold, min_samples_between_reps, baseline_window, pca_warmup) ==
    [ pca      |-> StreamingPCA(pca_warmup),
      smoother |-> StreamingSmoother,
      counter  |-> StreamingRepCounter(amplitude_threshold, min_samples_between_reps,
                                       baseline_window) ]

\* process_sample(ax, ay, az, sample_idx) with pc1_smooth the smoother's output
StreamingPipeline_process_sample(p, pc1_smooth, idx) ==
    LET c == StreamingRepCounter_process_sample(p.counter, pc1_smooth, idx)
    IN  [ p |-> [p EXCEPT !.pca.n = @ + 1,
                          !.smoother.value = Some(pc1_smooth),
                          !.counter = c.d],
          result |-> c.result ]

\* mutant of RepServer_reset_pipeline: an existing pipeline is kept and only
\* its detector is reset
ResetPipelineDetectorOnly(self) ==
    [ pipeline   |-> IF self.pipeline = None
                     THEN Some(StreamingPipeline(AmplitudeThreshold, MinSamplesBetweenReps,
                                                 BaselineWindow, PcaWarmup))
                     ELSE Some([Val(self.pipeline) EXCEPT
                                  !.counter = StreamingRepCounter_reset(@)]),
      sample_idx |-> 0 ]

\* RepServer._reset_pipeline: a fresh pipeline and sample index 0
RepServer_reset_pipeline(self) ==
    [ pipeline   |-> Some(StreamingPipeline(AmplitudeThreshold, MinSamplesBetweenReps,
                                            BaselineWindow, PcaWarmup)),
      sample_idx |-> 0 ]

(***************************************************************************)
(* RepServer: the consumer task _process_samples.                          *)
(*                                                                         *)
(* The event loop is single-threaded: a coroutine runs without             *)
(* interruption from one await to the next.  Each action below is one such *)
(* stretch.  The loop-owned fields travel through the stretch in a record  *)
(* st; `valid' is FALSE when the viewer chosen as the first element of a   *)
(* set iteration is not in the set.                                        *)
(***************************************************************************)
NoMessage ==
    [type |-> "", rep_count |-> 0, amplitude |-> 0, sample_idx |-> 0,
     exercise |-> "", error |-> FALSE]

NoBroadcast ==
    [outcome |-> "none", type |-> "", failed |-> {}, delivered |-> {},
     before |-> {}, after |-> {}]

ConsumerAt(pc) ==
    [ pc           |-> pc,        \* not_started, get, classify, send, crashed
      stage        |-> "",        \* the message type being broadcast
      ws           |-> "",        \* the viewer whose send is awaited
      used         |-> 0,         \* the set iterator's size snapshot
      start        |-> {},        \* the viewer set when the iteration began
      seen         |-> {},        \* viewers the iteration has yielded
      sent         |-> {},        \* viewers whose send returned
      disconnected |-> {},        \* the local set `disconnected'
      message      |-> NoMessage,
      sample       |-> 0,         \* the sample dequeued
      cls          |-> "",        \* how the classification ends: one of
                                  \* Classifications, or broadcast_raised when
                                  \* the broadcast of the label raised
      result       |-> None ]     \* the local `result'

\* a _broadcast call as recorded in events: the message and the sample whose
\* processing made the call
Event(message, sample) ==
    [type |-> message.type, sample |-> sample, rep_count |-> message.rep_count,
     amplitude |-> message.amplitude, sample_idx |-> message.sample_idx,
     exercise |-> message.exercise, error |-> message.error]

\* mutant of QueueGet: the newest item is taken
QueueGetNewest(q) == [item |-> q[Len(q)], rest |-> SubSeq(q, 1, Len(q) - 1)]

\* sample_queue.get(): the item and what is left
QueueGet(q) == [item |-> Head(q), rest |-> Tail(q)]

\* _broadcast called: `if not self.clients: return'
BroadcastToNobody(st, message) ==
    [st EXCEPT !.events = Append(@, Event(message, st.consumer.sample)),
               !.lastBroadcast = [NoBroadcast EXCEPT !.outcome = "completed",
                                                     !.type = message.type]]

\* _broadcast called with viewers: the iteration yields w and the task is
\* suspended in `await ws.send(message)'
BroadcastSuspend(st, message, w) ==
    [st EXCEPT !.valid = w \in st.clients,
               !.events = Append(@, Event(message, st.consumer.sample)),
               !.consumer = [@ EXCEPT !.pc = "send",
                                      !.stage = message.type,
                                      !.ws = w,
                                      !.used = Cardinality(st.clients),
                                      !.start = st.clients,
                                      !.seen = {w},
                                      !.sent = {},
                                      !.disconnected = {},
                                      !.message = message]]

\* the end of the loop body: back to `await self.sample_queue.get()'
BackToGet(st) == [st EXCEPT !.consumer = ConsumerAt("get")]

\* `if self.sample_idx % 50 == 0': the status heartbeat
StatusStage(st, w) ==
    IF st.sample_idx % StatusEvery = 0
    THEN LET m == [NoMessage EXCEPT !.type = "status",
                                    !.sample_idx = st.sample_idx,
                                    !.rep_count = Val(st.consumer.result).rep_count]
         IN  IF st.clients = {} THEN BackToGet(BroadcastToNobody(st, m))
             ELSE BroadcastSuspend(st, m, w)
    ELSE BackToGet(st)

\* `if self.sample_idx % 3 == 0': the speed message; the result dict has no
\* set_boundary key, so the set-boundary broadcast never happens
SpeedStage(st, w) ==
    IF st.sample_idx % SpeedEvery = 0
    THEN LET m == [NoMessage EXCEPT !.type = "speed"]
         IN  IF st.clients = {} THEN StatusStage(BroadcastToNobody(st, m), w)
             ELSE BroadcastSuspend(st, m, w)
    ELSE StatusStage(st, w)

\* mutant of RepMessage: the count as it was before this repetition
RepMessageCountBefore(result_) ==
    [NoMessage EXCEPT !.type = "rep",
                      !.rep_count = result_.rep_count - 1,
                      !.amplitude = result_.amplitude]

\* the 'rep' message made from the result dict
RepMessage(result_) ==
    [NoMessage EXCEPT !.type = "rep",
                      !.rep_count = result_.rep_count,
                      !.amplitude = result_.amplitude]

\* `if result["rep_detected"]': the rep message
RepStage(st, w) ==
    LET result_ == Val(st.consumer.result)
    IN  IF result_.rep_detected
        THEN LET m == RepMessage(result_)
                 st1 == [st EXCEPT !.sessionReps = Append(@, m.rep_count)]
             IN  IF st1.clients = {} THEN SpeedStage(BroadcastToNobody(st1, m), w)
                 ELSE BroadcastSuspend(st1, m, w)
        ELSE SpeedStage(st, w)

\* mutant of ProcessStage: a missing pipeline is created on the spot
ProcessStageCreatesPipeline(st, w, sig) ==
    LET p == IF st.pipeline = None
             THEN StreamingPipeline(AmplitudeThreshold, MinSamplesBetweenReps,
                                    BaselineWindow, PcaWarmup)
             ELSE Val(st.pipeline)
        r == StreamingPipeline_process_sample(p, sig, st.sample_idx)
    IN  RepStage([st EXCEPT !.pipeline = Some(r.p),
                            !.sample_idx = @ + 1,
                            !.handed = Append(@, st.consumer.sample),
                            !.consumer.result = Some(r.result)], w)

\* `if self.pipeline is None: continue', then process_sample and sample_idx += 1
ProcessStage(st, w, sig) ==
    IF st.pipeline = None THEN BackToGet(st)
    ELSE LET r == StreamingPipeline_process_sample(Val(st.pipeline), sig, st.sample_idx)
         IN  RepStage([st EXCEPT !.pipeline = Some(r.p),
                                 !.sample_idx = @ + 1,
                                 !.handed = Append(@, st.consumer.sample),
                                 !.consumer.result = Some(r.result)], w)

\* the 'exercise_detected' message: the classifier's label, or the default
\* label, with the error when an exception was caught
ExerciseDetected(cls, rep_count) ==
    [NoMessage EXCEPT !.type = "exercise_detected",
                      !.exercise = IF cls = "label" THEN "pred" ELSE "bicep_curl",
                      !.rep_count = rep_count,
                      !.error = (cls \in {"raised", "broadcast_raised"})]

\* `await self._broadcast(...)' of the classification, with the rep_count
\* captured when the buffer was completed; then on to the pipeline
BroadcastDetected(st, w, sig) ==
    LET m == ExerciseDetected(st.consumer.cls, st.consumer.message.rep_count)
    IN  IF st.clients = {} THEN ProcessStage(BroadcastToNobody(st, m), w, sig)
        ELSE BroadcastSuspend(st, m, w)

\* `if self.auto_detect_buffer is not None': collect, and classify when full.
\* The code's second test, len(buffer) >= 10, is true of every full buffer.
\* Without a classifier the default label is broadcast at once; with one,
\* classify_exercise is called, synchronously, and the task is in that call.
DetectStage(st, w, sig, cls) ==
    IF st.auto_detect_buffer = None THEN ProcessStage(st, w, sig)
    ELSE LET buffer == Append(Val(st.auto_detect_buffer), st.consumer.sample)
         IN  IF Len(buffer) >= AutoDetectSamples
             THEN LET rep_count == IF st.pipeline # None
                                   THEN Val(st.pipeline).counter.rep_count ELSE 0
                      st1 == [st EXCEPT !.auto_detect_buffer = None,
                                        !.consumer.cls = cls,
                                        !.consumer.message =
                                            ExerciseDetected(cls, rep_count)]
                  IN  IF cls = "unavailable" THEN BroadcastDetected(st1, w, sig)
                      ELSE [st1 EXCEPT !.consumer.pc = "classify"]
             ELSE ProcessStage([st EXCEPT !.auto_detect_buffer = Some(buffer)], w, sig)

\* where _process_samples goes on once the _broadcast of its stage returned
Resume(st, w, sig) ==
    CASE st.consumer.stage = "exercise_detected" -> ProcessStage(st, w, sig)
      [] st.consumer.stage = "rep"               -> SpeedStage(st, w)
      [] st.consumer.stage = "speed"             -> StatusStage(st, w)
      [] OTHER                                   -> BackToGet(st)

LoopState ==
    [ valid |-> TRUE, clients |-> clients, pipeline |-> pipeline, sample_idx |-> sample_idx,
      auto_detect_buffer |-> auto_detect_buffer, consumer |-> consumer,
      handed |-> handed, events |-> events, lastBroadcast |-> lastBroadcast,
      sessionReps |-> sessionReps ]

Commit(st) ==
    /\ st.valid
    /\ clients' = st.clients
    /\ pipeline' = st.pipeline
    /\ sample_idx' = st.sample_idx
    /\ auto_detect_buffer' = st.auto_detect_buffer
    /\ consumer' = st.consumer
    /\ handed' = st.handed
    /\ events' = st.events
    /\ lastBroadcast' = st.lastBroadcast
    /\ sessionReps' = st.sessionReps

\* the consumer dequeues a sample and runs to its next await
ConsumerGet ==
    /\ running
    /\ consumer.pc = "get"
    /\ sample_queue # <<>>
    /\ \E w \in Viewers, sig \in ServerSignals, cls \in Classifications :
          LET g == QueueGet(sample_queue)
          IN  /\ Commit(DetectStage([LoopState EXCEPT !.consumer.sample = g.item],
                                    w, sig, cls))
              /\ sample_queue' = g.rest
    /\ UNCHANGED <<running, callbacks, produced, conn, hpc, nmsgs, dropped, limits,
                   discarded, harnessVars>>

\* classify_exercise is an ordinary call made by the _process_samples
\* coroutine: until it returns the event loop runs nothing else, neither a
\* handler nor a scheduled callback
LoopFree == consumer.pc # "classify"

\* classify_exercise returns or raises: the message is broadcast
ConsumerClassified ==
    /\ consumer.pc = "classify"
    /\ \E w \in Viewers, sig \in ServerSignals : Commit(BroadcastDetected(LoopState, w, sig))
    /\ UNCHANGED <<running, sample_queue, callbacks, produced, conn, hpc, nmsgs, dropped,
                   limits, discarded, harnessVars>>

\* the awaited send is over: it returned, or raised ConnectionClosed
AfterSend(c) ==
    IF conn[c.ws] = "open"
    THEN [c EXCEPT !.sent = @ \cup {c.ws}]
    ELSE [c EXCEPT !.disconnected = @ \cup {c.ws}]

\* the set iterator's check, made by every next(): the set changed size
SetChangedSize(c) == Cardinality(clients) # c.used

\* `for ws in self.clients' goes on with another viewer
ConsumerSendNext ==
    /\ consumer.pc = "send"
    /\ ~SetChangedSize(consumer)
    /\ \E w \in clients \ consumer.seen :
          consumer' = [AfterSend(consumer) EXCEPT !.ws = w, !.seen = @ \cup {w}]
    /\ UNCHANGED <<running, clients, pipeline, sample_idx, auto_detect_buffer, sample_queue,
                   callbacks, produced, conn, hpc, nmsgs, handed, events, lastBroadcast,
                   dropped, limits, sessionReps, discarded,
                   harnessVars>>

\* the broadcast of a classifier's label stands inside `try: ... except
\* Exception': the RuntimeError of the set iterator is caught there, and the
\* handler broadcasts the default label with the error
FaultCaught(c) == c.stage = "exercise_detected" /\ c.cls = "label"

FaultRecord(c) ==
    [outcome |-> "fault", type |-> c.message.type, failed |-> c.disconnected,
     delivered |-> c.sent, before |-> clients, after |-> clients]

ConsumerSendFaultCaught ==
    /\ consumer.pc = "send"
    /\ SetChangedSize(consumer)
    /\ FaultCaught(consumer)
    /\ \E w \in Viewers, sig \in ServerSignals :
          LET c == AfterSend(consumer)
              st == [LoopState EXCEPT !.consumer = [c EXCEPT !.cls = "broadcast_raised"],
                                      !.lastBroadcast = FaultRecord(c)]
          IN  Commit(BroadcastDetected(st, w, sig))
    /\ UNCHANGED <<running, sample_queue, callbacks, produced, conn, hpc, nmsgs, dropped,
                   limits, discarded, harnessVars>>

\* next() raises RuntimeError("Set changed size during iteration"); nothing
\* else catches it, and the _process_samples task ends
ConsumerSendFault ==
    /\ consumer.pc = "send"
    /\ SetChangedSize(consumer)
    /\ ~FaultCaught(consumer)
    /\ LET c == AfterSend(consumer)
       IN  /\ consumer' = [c EXCEPT !.pc = "crashed"]
           /\ lastBroadcast' = FaultRecord(c)
    /\ UNCHANGED <<running, clients, pipeline, sample_idx, auto_detect_buffer, sample_queue,
                   callbacks, produced, conn, hpc, nmsgs, handed, events, dropped,
                   limits, sessionReps, discarded,
                   harnessVars>>

\* the iteration is over: self.clients -= disconnected, and on to the next await
ConsumerSendEnd ==
    /\ consumer.pc = "send"
    /\ ~SetChangedSize(consumer)
    /\ (clients \cap consumer.start) \ consumer.seen = {}
    /\ \E w \in Viewers, sig \in ServerSignals :
          LET c == AfterSend(consumer)
              st == [LoopState EXCEPT
                       !.consumer = c,
                       !.clients = clients \ c.disconnected,
                       !.lastBroadcast = [outcome |-> "completed", type |-> c.message.type,
                                          failed |-> c.disconnected, delivered |-> c.sent,
                                          before |-> clients,
                                          after |-> clients \ c.disconnected]]
          IN  Commit(Resume(st, w, sig))
    /\ UNCHANGED <<running, sample_queue, callbacks, produced, conn, hpc, nmsgs, dropped,
                   limits, discarded, harnessVars>>

(***************************************************************************)
(* RepServer._handle_client, one coroutine per viewer.                     *)
(***************************************************************************)
\* a viewer connects: clients.add, _reset_pipeline, `await send(connected)'
HandlerConnect(v) ==
    /\ running
    /\ LoopFree
    /\ v \in limits.viewers
    /\ conn[v] = "new"
    /\ conn' = [conn EXCEPT ![v] = "open"]
    /\ clients' = clients \cup {v}
    /\ LET r == RepServer_reset_pipeline([pipeline |-> pipeline, sample_idx |-> sample_idx])
       IN  pipeline' = r.pipeline /\ sample_idx' = r.sample_idx
    /\ hpc' = [hpc EXCEPT ![v] = "send_connected"]
    /\ sessionReps' = <<>>
    /\ UNCHANGED <<running, auto_detect_buffer, sample_queue, callbacks, produced, nmsgs,
                   consumer, handed, events, lastBroadcast, dropped, limits, discarded,
                   harnessVars>>

\* a send of the handler returns: on to `async for message in websocket'
HandlerSendDone(v) ==
    /\ LoopFree
    /\ hpc[v] \in {"send_connected", "send_reset_ack", "send_auto_detect_started"}
    /\ conn[v] = "open"
    /\ hpc' = [hpc EXCEPT ![v] = "reading"]
    /\ UNCHANGED <<running, clients, pipeline, sample_idx, auto_detect_buffer, sample_queue,
                   callbacks, produced, conn, nmsgs, consumer, handed, events,
                   lastBroadcast, dropped, limits, sessionReps, discarded,
                   harnessVars>>

\* a send of the handler raises ConnectionClosed.  The send of 'connected'
\* stands before the try statement: the exception leaves _handle_client and
\* the finally clause that discards the viewer does not run.  The replies
\* are sent inside it: the exception is caught and the viewer discarded.
HandlerSendFailed(v) ==
    /\ LoopFree
    /\ hpc[v] \in {"send_connected", "send_reset_ack", "send_auto_detect_started"}
    /\ conn[v] = "closed"
    /\ IF hpc[v] = "send_connected"
       THEN /\ hpc' = [hpc EXCEPT ![v] = "failed"]
            /\ UNCHANGED clients
       ELSE /\ hpc' = [hpc EXCEPT ![v] = "done"]
            /\ clients' = clients \ {v}
    /\ UNCHANGED <<running, pipeline, sample_idx, auto_detect_buffer, sample_queue,
                   callbacks, produced, conn, nmsgs, consumer, handed, events,
                   lastBroadcast, dropped, limits, sessionReps, discarded,
                   harnessVars>>

\* mutant of HandleMessage: a reset that leaves the classification buffer
HandleMessageResetKeepsBuffer(self, v, kind) ==
    CASE kind = "not_object" ->
            [self EXCEPT !.clients = @ \ {v}, !.hpc = "done", !.conn = "closed"]
      [] kind = "reset" ->
            LET r == RepServer_reset_pipeline(self)
            IN  [self EXCEPT !.pipeline = r.pipeline, !.sample_idx = r.sample_idx,
                             !.hpc = "send_reset_ack"]
      [] kind = "start_auto_detect" ->
            [self EXCEPT !.auto_detect_buffer = Some(<<>>),
                         !.hpc = "send_auto_detect_started"]
      [] OTHER -> self

\* what the body of the `async for' does with one message:
\*   json.loads raises JSONDecodeError       -> pass
\*   data is no dict: data.get raises AttributeError, which nothing catches:
\*     the finally clause discards the viewer and the handler ends, upon
\*     which the connection is closed
\*   no known action                         -> nothing
\*   reset             -> _reset_pipeline, auto_detect_buffer = None, reply
\*   start_auto_detect -> auto_detect_buffer = [], reply
HandleMessage(self, v, kind) ==
    CASE kind = "not_json" -> self
      [] kind = "not_object" ->
            [self EXCEPT !.clients = @ \ {v}, !.hpc = "done", !.conn = "closed"]
      [] kind = "no_action" -> self
      [] kind = "reset" ->
            LET r == RepServer_reset_pipeline(self)
            IN  [self EXCEPT !.pipeline = r.pipeline, !.sample_idx = r.sample_idx,
                             !.auto_detect_buffer = None, !.hpc = "send_reset_ack"]
      [] kind = "start_auto_detect" ->
            [self EXCEPT !.auto_detect_buffer = Some(<<>>),
                         !.hpc = "send_auto_detect_started"]

\* the handler of v receives a message of the given kind
HandlerRecv(v, kind) ==
    /\ LoopFree
    /\ hpc[v] = "reading"
    /\ conn[v] = "open"
    /\ nmsgs < limits.msgs
    /\ nmsgs' = nmsgs + 1
    /\ LET r == HandleMessage([clients |-> clients, pipeline |-> pipeline,
                               sample_idx |-> sample_idx,
                               auto_detect_buffer |-> auto_detect_buffer,
                               hpc |-> hpc[v], conn |-> conn[v]], v, kind)
       IN  /\ clients' = r.clients
           /\ pipeline' = r.pipeline
           /\ sample_idx' = r.sample_idx
           /\ auto_detect_buffer' = r.auto_detect_buffer
           /\ hpc' = [hpc EXCEPT ![v] = r.hpc]
           /\ conn' = [conn EXCEPT ![v] = r.conn]
    /\ sessionReps' = IF kind = "reset" THEN <<>> ELSE sessionReps
    /\ discarded' = IF kind = "reset" /\ auto_detect_buffer # None
                    THEN Some(Val(auto_detect_buffer)) ELSE discarded
    /\ UNCHANGED <<running, sample_queue, callbacks, produced, consumer, handed, events,
                   lastBroadcast, dropped, limits, harnessVars>>

\* the `async for' ends because the connection is closed: finally, discard
HandlerConnectionClosed(v) ==
    /\ LoopFree
    /\ hpc[v] = "reading"
    /\ conn[v] = "closed"
    /\ hpc' = [hpc EXCEPT ![v] = "done"]
    /\ clients' = clients \ {v}
    /\ UNCHANGED <<running, pipeline, sample_idx, auto_detect_buffer, sample_queue,
                   callbacks, produced, conn, nmsgs, consumer, handed, events,
                   lastBroadcast, dropped, limits, sessionReps, discarded,
                   harnessVars>>

\* the viewer goes away, or the network fails
ViewerDisconnect(v) ==
    /\ conn[v] = "open"
    /\ conn' = [conn EXCEPT ![v] = "closed"]
    /\ UNCHANGED <<running, clients, pipeline, sample_idx, auto_detect_buffer, sample_queue,
                   callbacks, produced, hpc, nmsgs, consumer, handed, events,
                   lastBroadcast, dropped, limits, sessionReps, discarded,
                   harnessVars>>

(***************************************************************************)
(* The reader thread and the handoff.                                      *)
(***************************************************************************)
\* RepServer.start: running = True, the queue, the reader thread, the task
Start ==
    /\ ~running
    /\ running' = TRUE
    /\ consumer' = ConsumerAt("get")
    /\ UNCHANGED <<clients, pipeline, sample_idx, auto_detect_buffer, sample_queue,
                   callbacks, produced, conn, hpc, nmsgs, handed, events, lastBroadcast,
                   dropped, limits, sessionReps, discarded,
                   harnessVars>>

\* _serial_reader: a well-formed line becomes a sample, numbered in the
\* order of production, and loop.call_soon_threadsafe(put_nowait, sample)
ReaderProduce ==
    /\ running
    /\ produced < limits.samples
    /\ produced' = produced + 1
    /\ callbacks' = Append(callbacks, produced + 1)
    /\ UNCHANGED <<running, clients, pipeline, sample_idx, auto_detect_buffer, sample_queue,
                   conn, hpc, nmsgs, consumer, handed, events, lastBroadcast, dropped,
                   limits, sessionReps, discarded,
                   harnessVars>>

\* mutant of LoopRunCallback: put_nowait on a queue without a capacity
LoopRunCallbackUnbounded ==
    /\ LoopFree
    /\ callbacks # <<>>
    /\ sample_queue' = Append(sample_queue, Head(callbacks))
    /\ callbacks' = Tail(callbacks)
    /\ UNCHANGED <<running, clients, pipeline, sample_idx, auto_detect_buffer, produced,
                   conn, hpc, nmsgs, consumer, handed, events, lastBroadcast, dropped,
                   limits, sessionReps, discarded,
                   harnessVars>>

\* the event loop runs the oldest scheduled put_nowait
LoopRunCallback ==
    /\ LoopFree
    /\ callbacks # <<>>
    /\ Len(sample_queue) < QueueMaxsize
    /\ sample_queue' = Append(sample_queue, Head(callbacks))
    /\ callbacks' = Tail(callbacks)
    /\ UNCHANGED <<running, clients, pipeline, sample_idx, auto_detect_buffer, produced,
                   conn, hpc, nmsgs, consumer, handed, events, lastBroadcast, dropped,
                   limits, sessionReps, discarded,
                   harnessVars>>

\* put_nowait on a full queue raises QueueFull inside the callback; the event
\* loop's exception handler logs it and the sample is gone
LoopRunCallbackFull ==
    /\ LoopFree
    /\ callbacks # <<>>
    /\ Len(sample_queue) >= QueueMaxsize
    /\ dropped' = dropped \cup {Head(callbacks)}
    /\ callbacks' = Tail(callbacks)
    /\ UNCHANGED <<running, clients, pipeline, sample_idx, auto_detect_buffer, sample_queue,
                   produced, conn, hpc, nmsgs, consumer, handed, events, lastBroadcast,
                   limits, sessionReps, discarded,
                   harnessVars>>

\* the reader thread: which reader it runs, where it is, the serial port,
\* the lines it has read, the mock reader's list `samples', the samples it
\* has handed to call_soon_threadsafe, and what its last step was
ReaderAt(mode, pc) ==
    [mode |-> mode, pc |-> pc, port |-> "none", lines |-> <<>>, samples |-> <<>>,
     sent |-> <<>>, event |-> "none"]

\* the components driven on their own are not in use
UnitIdle ==
    /\ smoother = StreamingSmoother_init(SmoothAlpha)
    /\ smoothIn = <<>>
    /\ smoothOut = <<>>
    /\ pca = StreamingPCA_init(Warmup)
    /\ pcaIn = <<>>
    /\ pcaOut = None
    /\ pcaEig = None
    /\ reader = ReaderAt("serial", "idle")

\* nothing but the server is in use
NoHarness ==
    /\ result = None
    /\ twin = None
    /\ twinResult = None
    /\ repAt = <<>>
    /\ transition = "none"
    /\ epoch = "server"
    /\ op = "server"
    /\ wave = None
    /\ smoother = StreamingSmoother_init(SmoothAlpha)
    /\ smoothIn = <<>>
    /\ smoothOut = <<>>
    /\ pca = StreamingPCA_init(Warmup)
    /\ pcaIn = <<>>
    /\ pcaOut = None
    /\ pcaEig = None

HarnessIdle ==
    /\ result = None
    /\ twin = None
    /\ twinResult = None
    /\ repAt = <<>>
    /\ transition = "none"
    /\ epoch = "server"
    /\ op = "server"
    /\ wave = None
    /\ UnitIdle

\* RepServer.__init__, but for pipeline and sample_idx
ServerIdle ==
    /\ running = FALSE
    /\ clients = {}
    /\ auto_detect_buffer = None
    /\ sample_queue = <<>>
    /\ callbacks = <<>>
    /\ produced = 0
    /\ conn = [v \in Viewers |-> "new"]
    /\ hpc = [v \in Viewers |-> "none"]
    /\ nmsgs = 0
    /\ consumer = ConsumerAt("not_started")
    /\ handed = <<>>
    /\ events = <<>>
    /\ lastBroadcast = NoBroadcast
    /\ dropped = {}
    /\ sessionReps = <<>>
    /\ discarded = None

\* RepServer.__init__
Init ==
    /\ ServerIdle
    /\ limits \in Profiles
    /\ pipeline = None
    /\ sample_idx = 0
    /\ HarnessIdle

Next ==
    \/ Start
    \/ ReaderProduce
    \/ LoopRunCallback
    \/ LoopRunCallbackFull
    \/ ConsumerGet
    \/ ConsumerSendNext
    \/ ConsumerClassified
    \/ ConsumerSendFaultCaught
    \/ ConsumerSendFault
    \/ ConsumerSendEnd
    \/ \E v \in Viewers : HandlerConnect(v)
    \/ \E v \in Viewers : HandlerSendDone(v)
    \/ \E v \in Viewers : HandlerSendFailed(v)
    \/ \E v \in Viewers, kind \in MessageKinds : HandlerRecv(v, kind)
    \/ \E v \in Viewers : HandlerConnectionClosed(v)
    \/ \E v \in Viewers : ViewerDisconnect(v)

Spec == Init /\ [][Next]_vars

(***************************************************************************)
(* The harness: a pipeline driven directly, as the consumer drives it.     *)
(***************************************************************************)
counter == Val(pipeline).counter

FreshPipeline ==
    StreamingPipeline(AmplitudeThreshold, MinSamplesBetweenReps, BaselineWindow, PcaWarmup)

\* What a call did, read off the detector before (d) and after (e) it:
\* no valley-to-peak transition, one that counted, one whose amplitude
\* qualified but was held back by the debounce counter, or one too small.
TransitionOf(d, e) ==
    IF ~(d.state = "WAITING_FOR_VALLEY" /\ e.state = "WAITING_FOR_PEAK") THEN "none"
    ELSE IF e.rep_count # d.rep_count THEN "counted"
    ELSE IF Val(d.current_peak) - Val(d.current_valley) > AmplitudeThreshold * Scale
         THEN "debounced"
    ELSE "small"

(***************************************************************************)
(* SpecDet: one pipeline driven sample by sample, with resets.             *)
(***************************************************************************)
DetInit ==
    /\ ServerIdle
    /\ limits = [samples |-> 0, msgs |-> 0, viewers |-> {}]
    /\ pipeline = Some(FreshPipeline)
    /\ sample_idx = 0
    /\ result = None
    /\ twin = FreshPipeline
    /\ twinResult = None
    /\ repAt = <<>>
    /\ transition = "none"
    /\ epoch = "constructed"
    /\ op = "new"
    /\ wave = None
    /\ UnitIdle

\* result = self.pipeline.process_sample(ax, ay, az, self.sample_idx); self.sample_idx += 1
DetProcess ==
    /\ sample_idx < MaxCalls
    /\ \E x \in Signals :
          LET r == StreamingPipeline_process_sample(Val(pipeline), x, sample_idx)
              t == StreamingPipeline_process_sample(twin, x, sample_idx)
          IN  /\ pipeline' = Some(r.p)
              /\ result' = Some(r.result)
              /\ twin' = t.p
              /\ twinResult' = Some(t.result)
              /\ repAt' = IF r.p.counter.rep_count # counter.rep_count
                          THEN Append(repAt, Len(counter.signal_history) + 1)
                          ELSE repAt
              /\ transition' = TransitionOf(counter, r.p.counter)
    /\ sample_idx' = sample_idx + 1
    /\ op' = "process"
    /\ UNCHANGED <<epoch, wave, serverVars, unitVars>>

\* self._reset_pipeline()
DetResetPipeline ==
    /\ LET r == RepServer_reset_pipeline([pipeline |-> pipeline, sample_idx |-> sample_idx])
       IN  pipeline' = r.pipeline /\ sample_idx' = r.sample_idx
    /\ result' = None
    /\ twin' = FreshPipeline
    /\ twinResult' = None
    /\ repAt' = <<>>
    /\ transition' = "none"
    /\ epoch' = "reset_pipeline"
    /\ op' = "reset_pipeline"
    /\ UNCHANGED <<wave, serverVars, unitVars>>

\* self.pipeline.counter.reset()
DetCounterReset ==
    /\ pipeline' = Some([Val(pipeline) EXCEPT !.counter = StreamingRepCounter_reset(@)])
    /\ twin' = [Val(pipeline) EXCEPT !.counter =
                   StreamingRepCounter(AmplitudeThreshold, MinSamplesBetweenReps,
                                       BaselineWindow)]
    /\ result' = None
    /\ twinResult' = None
    /\ repAt' = <<>>
    /\ transition' = "none"
    /\ epoch' = "counter_reset"
    /\ op' = "counter_reset"
    /\ UNCHANGED <<sample_idx, wave, serverVars, unitVars>>

DetNext == DetProcess \/ DetResetPipeline \/ DetCounterReset

SpecDet == DetInit /\ [][DetNext]_vars

(***************************************************************************)
(* SpecDebounce: a detector constructed with a minimum spacing longer than *)
(* the three calls that a peak, a valley and the rise after it take, so    *)
(* that in its first calls only the debounce counter can hold back a       *)
(* repetition.                                                             *)
(***************************************************************************)
\* min_samples_between_reps handed to the constructor
Spacings == {MinSamplesBetweenReps + 1, MinSamplesBetweenReps + 2}

DebounceInit ==
    /\ ServerIdle
    /\ limits = [samples |-> 0, msgs |-> 0, viewers |-> {}]
    /\ \E spacing \in Spacings :
          /\ pipeline = Some(StreamingPipeline(AmplitudeThreshold, spacing,
                                               BaselineWindow, PcaWarmup))
          /\ twin = StreamingPipeline(AmplitudeThreshold, spacing, BaselineWindow, PcaWarmup)
    /\ sample_idx = 0
    /\ result = None
    /\ twinResult = None
    /\ repAt = <<>>
    /\ transition = "none"
    /\ epoch = "constructed"
    /\ op = "new"
    /\ wave = None
    /\ UnitIdle

\* result = self.pipeline.process_sample(ax, ay, az, self.sample_idx); self.sample_idx += 1
DebounceProcess ==
    /\ sample_idx < MaxEarlyCalls
    /\ DetProcess

\* self.pipeline.counter.reset(): __init__ with the detector's own parameters
DebounceReset ==
    /\ pipeline' = Some([Val(pipeline) EXCEPT !.counter = StreamingRepCounter_reset(@)])
    /\ twin' = [Val(pipeline) EXCEPT !.counter =
                   StreamingRepCounter(counter.amplitude_threshold,
                                       counter.min_samples_between_reps,
                                       counter.baseline_window)]
    /\ result' = None
    /\ twinResult' = None
    /\ repAt' = <<>>
    /\ transition' = "none"
    /\ epoch' = "counter_reset"
    /\ op' = "counter_reset"
    /\ UNCHANGED <<sample_idx, wave, serverVars, unitVars>>

DebounceNext == DebounceProcess \/ DebounceReset

SpecDebounce == DebounceInit /\ [][DebounceNext]_vars

(***************************************************************************)
(* Helpers of the properties.                                              *)
(***************************************************************************)
Min2(a, b) == IF a < b THEN a ELSE b

Last(s) == s[Len(s)]

\* the last m elements of s
LastN(s, m) == SubSeq(s, Len(s) - m + 1, Len(s))

SeqMax(s) == CHOOSE v \in {s[i] : i \in DOMAIN s} : \A i \in DOMAIN s : s[i] <= v

SeqMin(s) == CHOOSE v \in {s[i] : i \in DOMAIN s} : \A i \in DOMAIN s : v <= s[i]

(***************************************************************************)
(* C4.  A process_sample call changes rep_count only from                  *)
(* WAITING_FOR_VALLEY, when the centered value is more than the hysteresis *)
(* margin above the tracked valley, peak - valley exceeds the amplitude    *)
(* threshold and the debounce counter (as incremented by this call)        *)
(* exceeds min_samples_between_reps; rep_count then grows by exactly 1,    *)
(* the debounce counter becomes 0 and the state WAITING_FOR_PEAK.  On      *)
(* every other call rep_count is unchanged.                                *)
(***************************************************************************)
C4_Gate(d, e) ==
    LET centered == Last(e.signal_history) * Scale - e.baseline
    IN  /\ d.state = "WAITING_FOR_VALLEY"
        /\ centered > Val(d.current_valley) + Hysteresis * Scale
        /\ Val(d.current_peak) - Val(d.current_valley) > AmplitudeThreshold * Scale
        /\ d.samples_since_last_rep + 1 > MinSamplesBetweenReps

C4_RepCountedOnlyAtValleyToPeak ==
    [][ op' = "process" =>
          IF C4_Gate(counter, counter')
          THEN /\ counter'.rep_count = counter.rep_count + 1
               /\ counter'.samples_since_last_rep = 0
               /\ counter'.state = "WAITING_FOR_PEAK"
          ELSE counter'.rep_count = counter.rep_count ]_vars

\* a second repetition has just been counted
C4_Witness ==
    /\ op = "process"
    /\ transition = "counted"
    /\ counter.rep_count = 2

(***************************************************************************)
(* C5.  Any two counted repetitions of one detector are more than          *)
(* min_samples_between_reps process_sample calls apart.                    *)
(***************************************************************************)
C5_RepsSpacedByDebounce ==
    \A i \in 1 .. Len(repAt) - 1 : repAt[i + 1] - repAt[i] > MinSamplesBetweenReps

\* after a counted repetition, an amplitude-qualifying oscillation came too
\* soon and was not counted
C5_Witness ==
    /\ Len(repAt) = 1
    /\ transition = "debounced"
    /\ Len(counter.signal_history) - repAt[1] <= MinSamplesBetweenReps

(***************************************************************************)
(* C6.  A signal whose values never span more than amplitude_threshold     *)
(* between maximum and minimum leaves rep_count at 0.                      *)
(***************************************************************************)
C6_SubThresholdSpanCountsNothing ==
    LET h == counter.signal_history
    IN  (h # <<>> /\ SeqMax(h) - SeqMin(h) <= AmplitudeThreshold) => counter.rep_count = 0

(***************************************************************************)
(* C8.  After every process_sample call the recent-sample window is the    *)
(* last min(k, baseline_window) signal values in arrival order, k the      *)
(* number of calls since construction or reset; its length never exceeds   *)
(* baseline_window; the baseline stored and returned is the arithmetic     *)
(* mean of exactly that window.                                            *)
(***************************************************************************)
C8_WindowIsLastSamples ==
    LET d == counter
        k == Len(d.signal_history)
        m == Min2(k, BaselineWindow)
    IN  /\ Len(d.recent_samples) <= BaselineWindow
        /\ d.recent_samples = LastN(d.signal_history, m)
        /\ k > 0 => /\ d.baseline * m = Scale * SumSeq(LastN(d.signal_history, m))
                    /\ result # None => Val(result).baseline = d.baseline

\* the window is full and has evicted at least two samples
C8_Witness ==
    /\ op = "process"
    /\ Len(counter.signal_history) >= BaselineWindow + 2
    /\ Len(counter.recent_samples) = BaselineWindow
    /\ counter.recent_samples[1] # counter.signal_history[1]

(***************************************************************************)
(* C9.  After a reset (RepServer._reset_pipeline, StreamingRepCounter      *)
(* .reset) the pipeline, fed the same further samples as a freshly         *)
(* constructed one, is in the same state and returns the same result at    *)
(* every step; right after _reset_pipeline the whole pipeline is the       *)
(* constructor's and the sample index is 0; right after the detector's     *)
(* reset the detector is the constructor's.                                *)
(***************************************************************************)
C9_ResetIsFresh ==
    /\ epoch # "constructed" => Val(pipeline) = twin /\ result = twinResult
    /\ op = "reset_pipeline" =>
          /\ Val(pipeline) = StreamingPipeline(AmplitudeThreshold, MinSamplesBetweenReps,
                                               BaselineWindow, PcaWarmup)
          /\ sample_idx = 0
    /\ op = "counter_reset" =>
          counter = StreamingRepCounter(AmplitudeThreshold, MinSamplesBetweenReps,
                                        BaselineWindow)

\* a pipeline made by _reset_pipeline has just counted its first repetition,
\* and so has the freshly constructed twin
C9_Witness ==
    /\ epoch = "reset_pipeline"
    /\ op = "process"
    /\ counter.rep_count = 1
    /\ Val(result).rep_detected
    /\ Val(twinResult).rep_detected

(***************************************************************************)
(* SpecWave: a detector fed a clean periodic signal.  The signal is a      *)
(* triangle wave around the level `amplitude': it starts at mid-level,     *)
(* rises to 2 * amplitude in `quarter' samples, falls to 0 in 2 * quarter  *)
(* samples and returns to mid-level, so its amplitude (half the            *)
(* peak-to-peak swing) is `amplitude' and its period 4 * quarter.          *)
(***************************************************************************)
\* the longest quarter period
MaxQuarter == 3
\* cycles fed
NCycles == 3
\* amplitudes above the threshold
WaveAmplitudes == {24, 30}

WavePeriod(w) == 4 * w.quarter

\* the k-th sample of the signal, k = 0, 1, ...
WaveValue(w, k) ==
    LET j == k % WavePeriod(w)
        q == w.quarter
        a == w.amplitude
    IN  IF j <= q THEN a + (a * j) \div q
        ELSE IF j <= 3 * q THEN a + (a * (2 * q - j)) \div q
        ELSE a - (a * (4 * q - j)) \div q

WaveInit ==
    /\ ServerIdle
    /\ limits = [samples |-> 0, msgs |-> 0, viewers |-> {}]
    /\ pipeline = Some(FreshPipeline)
    /\ sample_idx = 0
    /\ result = None
    /\ twin = None
    /\ twinResult = None
    /\ repAt = <<>>
    /\ transition = "none"
    /\ epoch = "constructed"
    /\ op = "new"
    /\ wave \in {Some([quarter |-> q, amplitude |-> a]) : q \in 2 .. MaxQuarter,
                                                            a \in WaveAmplitudes}
    /\ UnitIdle

WaveProcess ==
    /\ sample_idx < NCycles * WavePeriod(Val(wave))
    /\ LET r == StreamingPipeline_process_sample(Val(pipeline),
                                                 WaveValue(Val(wave), sample_idx), sample_idx)
       IN  /\ pipeline' = Some(r.p)
           /\ result' = Some(r.result)
           /\ repAt' = IF r.p.counter.rep_count # counter.rep_count
                       THEN Append(repAt, Len(counter.signal_history) + 1)
                       ELSE repAt
           /\ transition' = TransitionOf(counter, r.p.counter)
    /\ sample_idx' = sample_idx + 1
    /\ op' = "process"
    /\ UNCHANGED <<twin, twinResult, epoch, wave, serverVars, unitVars>>

SpecWave == WaveInit /\ [][WaveProcess]_vars

(***************************************************************************)
(* C7.  For a clean periodic signal of amplitude above the threshold and   *)
(* period longer than min_samples_between_reps, rep_count is the number of *)
(* cycles completed: checked at the end of every whole cycle.              *)
(***************************************************************************)
C7_OneRepPerCycle ==
    LET w == Val(wave)
    IN  (/\ w.amplitude > AmplitudeThreshold
         /\ WavePeriod(w) > MinSamplesBetweenReps
         /\ sample_idx > 0
         /\ sample_idx % WavePeriod(w) = 0)
        => counter.rep_count = sample_idx \div WavePeriod(w)

(***************************************************************************)
(* C1.  While the server is running the consumer task _process_samples     *)
(* never ends.                                                             *)
(***************************************************************************)
C1_ConsumerNeverEnds == running => consumer.pc # "crashed"

(***************************************************************************)
(* C2.  A _broadcast call in which some sends failed ends by removing      *)
(* exactly the viewers whose send failed: every other viewer of the set    *)
(* was sent the message and is still in the set, and the consumer goes on. *)
(***************************************************************************)
C2_FailedSendsRemoveOnlyTheFailed ==
    lastBroadcast.failed # {} =>
        /\ lastBroadcast.outcome = "completed"
        /\ lastBroadcast.after = lastBroadcast.before \ lastBroadcast.failed
        /\ (lastBroadcast.before \ lastBroadcast.failed) \subseteq lastBroadcast.delivered
        /\ consumer.pc # "crashed"

(***************************************************************************)
(* C3.  A viewer message that is not a well-formed request (not JSON, JSON *)
(* that is no object, an object without a known action) is ignored: the    *)
(* viewer stays in the viewer set, its handler keeps reading, and the      *)
(* orchestrator, the sample index and the classification buffer are        *)
(* unchanged.                                                              *)
(***************************************************************************)
C3_MalformedMessageIgnored ==
    [][ \A v \in Viewers, kind \in {"not_json", "not_object", "no_action"} :
          HandlerRecv(v, kind) =>
              /\ v \in clients'
              /\ hpc'[v] = "reading"
              /\ conn'[v] = "open"
              /\ pipeline' = pipeline
              /\ sample_idx' = sample_idx
              /\ auto_detect_buffer' = auto_detect_buffer ]_vars

(***************************************************************************)
(* C10.  The samples handed to the orchestrator are in the order the       *)
(* reader produced them (samples are numbered in that order) and none is   *)
(* handed twice; _broadcast calls are made in the order in which their     *)
(* samples were dequeued, and for one sample 'exercise_detected' comes     *)
(* before 'rep'.                                                           *)
(***************************************************************************)
C10_Rank(e) ==
    CASE e.type = "exercise_detected" -> 1
      [] e.type = "rep"               -> 2
      [] e.type = "speed"             -> 3
      [] OTHER                        -> 4

C10_SamplesAndEventsInOrder ==
    /\ \A i \in 1 .. Len(handed) : handed[i] \in 1 .. produced
    /\ \A i \in 1 .. Len(handed) - 1 : handed[i] < handed[i + 1]
    /\ \A i \in 1 .. Len(events) - 1 :
          \/ events[i].sample < events[i + 1].sample
          \/ /\ events[i].sample = events[i + 1].sample
             /\ C10_Rank(events[i]) <= C10_Rank(events[i + 1])

\* three samples were handed over, the second completed a classification
\* buffer and the third was a repetition
C10_Witness ==
    /\ Len(handed) = 3
    /\ \E i, j \in DOMAIN events :
          /\ i < j
          /\ events[i].type = "exercise_detected"
          /\ events[j].type = "rep"
          /\ events[i].sample < events[j].sample

(***************************************************************************)
(* C11.  A sample produced while the handoff queue is full has a handled   *)
(* outcome: put_nowait raises nothing that is left unhandled and the       *)
(* sample is not lost.  `dropped' holds the samples whose put_nowait       *)
(* raised QueueFull inside the event loop's callback.                      *)
(***************************************************************************)
C11_FullQueueLosesNoSample == dropped = {}

(***************************************************************************)
(* C14.  When process_sample reports rep_detected, the amplitude of its    *)
(* result is the peak-to-valley amplitude of the repetition just counted,  *)
(* the value recorded last in rep_amplitudes, and exceeds the amplitude    *)
(* threshold.                                                              *)
(***************************************************************************)
C14_RepAmplitudeReported ==
    (result # None /\ Val(result).rep_detected) =>
        /\ counter.rep_amplitudes # <<>>
        /\ Val(result).amplitude = Last(counter.rep_amplitudes)
        /\ Val(result).amplitude > AmplitudeThreshold * Scale

(***************************************************************************)
(* C13.  Within one session (since the last _reset_pipeline) the i-th      *)
(* 'rep' message broadcast carries rep_count = i, and the 'rep' messages   *)
(* broadcast are as many as the repetitions the session's detector has     *)
(* counted: one for each sample that reported rep_detected, made before    *)
(* the consumer takes up anything else.                                    *)
(***************************************************************************)
C13_RepMessagesCountTheSession ==
    /\ \A i \in DOMAIN sessionReps : sessionReps[i] = i
    /\ Len(sessionReps) = IF pipeline = None THEN 0 ELSE counter.rep_count

\* the second 'rep' message of a session has been broadcast, with a viewer
\* in the set
C13_Witness ==
    /\ Len(sessionReps) = 2
    /\ clients # {}
    /\ Len(SelectSeq(events, LAMBDA e : e.type = "rep")) = 2

\* the _broadcast calls made by the step
NewEvents == SubSeq(events', Len(events) + 1, Len(events'))

\* the step made a _broadcast call of the given type
Broadcasts(type) == \E i \in DOMAIN NewEvents : NewEvents[i].type = type

\* the step is the consumer's dequeue of a sample
Dequeues == Len(sample_queue') < Len(sample_queue)

(***************************************************************************)
(* C15.  When a viewer connects it is in the viewer set, the orchestrator  *)
(* is a freshly constructed one with sample index 0 and 'connected' is     *)
(* being sent to that viewer and to no other, all in one step of the event *)
(* loop, before any sample is processed; and a viewer whose handler has    *)
(* ended, for whatever reason, is not in the viewer set.                   *)
(***************************************************************************)
C15_ConnectStartsSessionAndEndRemoves ==
    [][ /\ \A v \in Viewers :
              HandlerConnect(v) =>
                  /\ v \in clients'
                  /\ pipeline' = Some(FreshPipeline)
                  /\ sample_idx' = 0
                  /\ hpc'[v] = "send_connected"
                  /\ \A u \in Viewers \ {v} : hpc'[u] = hpc[u]
                  /\ events' = events
                  /\ handed' = handed
        /\ \A v \in Viewers : hpc'[v] \in {"done", "failed"} => v \notin clients' ]_vars

(***************************************************************************)
(* C16.  A 'reset' request replaces the orchestrator by a freshly          *)
(* constructed one, sets the sample index to 0 and closes the              *)
(* classification buffer in the step that starts sending 'reset_ack' to    *)
(* the requester; the viewer set is unchanged; and no 'exercise_detected'  *)
(* is broadcast for a closed buffer: the consumer, when it dequeues a      *)
(* sample, makes that broadcast only if the buffer is open.                *)
(***************************************************************************)
C16_ResetStartsSessionAndClosesBuffer ==
    [][ /\ \A v \in Viewers :
              HandlerRecv(v, "reset") =>
                  /\ pipeline' = Some(FreshPipeline)
                  /\ sample_idx' = 0
                  /\ auto_detect_buffer' = None
                  /\ clients' = clients
                  /\ hpc'[v] = "send_reset_ack"
                  /\ events' = events
        /\ (consumer.pc = "get" /\ auto_detect_buffer = None) =>
              /\ ~Broadcasts("exercise_detected")
              /\ consumer'.pc # "classify" ]_vars

\* a reset closed a buffer that lacked one sample, a sample has been
\* processed since, and no classification was ever broadcast
C16_Witness ==
    /\ discarded # None
    /\ Len(Val(discarded)) = AutoDetectSamples - 1
    /\ auto_detect_buffer = None
    /\ sample_idx >= 1
    /\ \A i \in DOMAIN events : events[i].type # "exercise_detected"

(***************************************************************************)
(* C17.  A 'start_auto_detect' request opens an empty classification       *)
(* buffer and starts the send of 'auto_detect_started' to the requester.   *)
(* Every sample dequeued while the buffer is open is appended to it; the   *)
(* dequeue of the sample that brings it to AUTO_DETECT_SAMPLES closes the  *)
(* buffer and leads to the classification of that sample's buffer, so an   *)
(* open buffer is always shorter than AUTO_DETECT_SAMPLES; and one buffer  *)
(* is answered by exactly one 'exercise_detected' broadcast.               *)
(***************************************************************************)
C17_OneClassificationPerRequest ==
    [][ /\ \A v \in Viewers :
              HandlerRecv(v, "start_auto_detect") =>
                  /\ auto_detect_buffer' = Some(<<>>)
                  /\ hpc'[v] = "send_auto_detect_started"
                  /\ events' = events
        /\ auto_detect_buffer' # None => Len(Val(auto_detect_buffer')) < AutoDetectSamples
        /\ (Dequeues /\ auto_detect_buffer # None) =>
              LET buffer == Append(Val(auto_detect_buffer), Head(sample_queue))
              IN  IF Len(buffer) < AutoDetectSamples
                  THEN /\ auto_detect_buffer' = Some(buffer)
                       /\ ~Broadcasts("exercise_detected")
                       /\ consumer'.pc # "classify"
                  ELSE /\ auto_detect_buffer' = None
                       /\ \/ consumer'.pc = "classify"
                          \/ \E i \in DOMAIN NewEvents :
                                /\ NewEvents[i].type = "exercise_detected"
                                /\ NewEvents[i].sample = Head(sample_queue)
        /\ \A i, j \in DOMAIN events' :
              (/\ i < j
               /\ events'[i].type = "exercise_detected"
               /\ events'[j].type = "exercise_detected")
              => events'[i].sample # events'[j].sample ]_vars

\* the consumer holds a dequeued sample that completed a classification
\* buffer and has not been through the pipeline yet
InDetect(c) == c.pc = "classify" \/ (c.pc = "send" /\ c.stage = "exercise_detected")

(***************************************************************************)
(* C18.  Classification leaves the orchestrator alone: the request changes *)
(* neither pipeline nor sample index; a sample dequeued while the buffer   *)
(* is open goes through the pipeline as it would without a buffer, at once *)
(* or, when it completes the buffer, once the classification has been     *)
(* broadcast; and the rep_count of 'exercise_detected' is the detector's   *)
(* rep_count when the buffer was completed.                                *)
(***************************************************************************)
C18_ClassificationLeavesPipelineAlone ==
    [][ /\ \A v \in Viewers :
              HandlerRecv(v, "start_auto_detect") =>
                  pipeline' = pipeline /\ sample_idx' = sample_idx
        /\ (Dequeues /\ auto_detect_buffer # None) =>
              /\ pipeline # None
              /\ \/ /\ InDetect(consumer')
                    /\ consumer'.sample = Head(sample_queue)
                    /\ consumer'.message.rep_count = counter.rep_count
                    /\ pipeline' = pipeline
                    /\ sample_idx' = sample_idx
                 \/ /\ \E sig \in ServerSignals :
                          pipeline' = Some(StreamingPipeline_process_sample(
                                               Val(pipeline), sig, sample_idx).p)
                    /\ sample_idx' = sample_idx + 1
                    /\ handed' = Append(handed, Head(sample_queue))
        /\ (InDetect(consumer) /\ ~InDetect(consumer')) =>
              /\ \E sig \in ServerSignals :
                    pipeline' = Some(StreamingPipeline_process_sample(
                                         Val(pipeline), sig, sample_idx).p)
              /\ sample_idx' = sample_idx + 1
              /\ handed' = Append(handed, consumer.sample)
        /\ \A i \in DOMAIN NewEvents :
              NewEvents[i].type = "exercise_detected" =>
                  NewEvents[i].rep_count = IF consumer.pc = "get" THEN counter.rep_count
                                           ELSE consumer.message.rep_count ]_vars

(***************************************************************************)
(* C19.  When the classifier raises or there is none, one                  *)
(* 'exercise_detected' is broadcast with the label 'bicep_curl' and the    *)
(* rep_count captured, with the error when the classifier raised; the      *)
(* consumer does not end in that broadcast, and the sample that completed  *)
(* the buffer has been through the pipeline when the consumer is done with *)
(* it.                                                                     *)
(***************************************************************************)
C19_ClassifierFailureFallsBack ==
    [][ /\ \A i \in DOMAIN NewEvents :
              (/\ NewEvents[i].type = "exercise_detected"
               /\ consumer'.cls \in {"raised", "unavailable"}) =>
                  /\ NewEvents[i].exercise = "bicep_curl"
                  /\ NewEvents[i].error = (consumer'.cls = "raised")
                  /\ NewEvents[i].rep_count = counter.rep_count
        /\ (consumer.pc = "classify" /\ consumer.cls = "raised" /\ consumer' # consumer) =>
              Broadcasts("exercise_detected")
        /\ (Dequeues /\ consumer'.cls = "unavailable") => Broadcasts("exercise_detected")
        /\ (InDetect(consumer) /\ consumer.cls \in {"raised", "unavailable"}
                               /\ ~InDetect(consumer')) =>
              /\ consumer'.pc # "crashed"
              /\ handed' = Append(handed, consumer.sample) ]_vars

(***************************************************************************)
(* C20.  The classifier does not block the event loop: while a             *)
(* classification is being computed, a scheduled put_nowait can run and a  *)
(* viewer's request can be handled.                                        *)
(***************************************************************************)
C20_ClassifierDoesNotBlock ==
    consumer.pc = "classify" =>
        /\ callbacks # <<>> => ENABLED (LoopRunCallback \/ LoopRunCallbackFull)
        /\ \A v \in Viewers :
              (hpc[v] = "reading" /\ conn[v] = "open" /\ nmsgs < limits.msgs)
                  => ENABLED HandlerRecv(v, "reset")

(***************************************************************************)
(* C21.  The classification buffer belongs to one session: the step that   *)
(* creates a session, a viewer connecting or a 'reset' request, leaves no  *)
(* classification buffer open, so no buffer collects samples from both     *)
(* sides of a session boundary.                                            *)
(***************************************************************************)
C21_NoBufferAcrossSessions ==
    [][ \A v \in Viewers :
          (HandlerConnect(v) \/ HandlerRecv(v, "reset")) => auto_detect_buffer' = None ]_vars

(***************************************************************************)
(* C22.  Every 'status' heartbeat broadcast carries a sample_idx that is a *)
(* positive multiple of 50 and the number of samples the current session   *)
(* has processed, and the rep_count of the current session's detector,     *)
(* also when a reset or a connect was handled while the consumer was       *)
(* suspended in an earlier broadcast for the same sample.                  *)
(***************************************************************************)
C22_StatusCarriesSessionProgress ==
    [][ \A i \in DOMAIN NewEvents :
          NewEvents[i].type = "status" =>
              /\ NewEvents[i].sample_idx > 0
              /\ NewEvents[i].sample_idx % StatusEvery = 0
              /\ NewEvents[i].sample_idx = sample_idx'
              /\ pipeline' # None
              /\ NewEvents[i].rep_count = Val(pipeline').counter.rep_count ]_vars

(***************************************************************************)
(* SpecSmooth: one StreamingSmoother driven by update and reset calls.     *)
(***************************************************************************)
\* update calls explored after construction or reset
MaxSmoothCalls == 4
\* the scalars fed to the smoother
SmoothInputs == {-10, 0, 30}

\* no server, no pipeline, no wave: one component on its own
UnitInit ==
    /\ ServerIdle
    /\ limits = [samples |-> 0, msgs |-> 0, viewers |-> {}]
    /\ pipeline = None
    /\ sample_idx = 0
    /\ result = None
    /\ twin = None
    /\ twinResult = None
    /\ repAt = <<>>
    /\ transition = "none"
    /\ epoch = "constructed"
    /\ op = "new"
    /\ wave = None
    /\ UnitIdle

\* pc1_smooth = self.smoother.update(pc1_value)
SmoothUpdate ==
    /\ Len(smoothIn) < MaxSmoothCalls
    /\ \E x \in SmoothInputs :
          LET r == StreamingSmoother_update(smoother, RInt(x))
          IN  /\ smoother' = r.s
              /\ smoothIn' = Append(smoothIn, x)
              /\ smoothOut' = Append(smoothOut, r.out)
    /\ op' = "update"
    /\ UNCHANGED <<pipeline, sample_idx, serverVars, result, twin, twinResult, repAt,
                   transition, epoch, wave, pcaVars, reader>>

\* self.smoother.reset()
SmoothReset ==
    /\ smoother' = StreamingSmoother_reset(smoother)
    /\ smoothIn' = <<>>
    /\ smoothOut' = <<>>
    /\ epoch' = "reset"
    /\ op' = "reset"
    /\ UNCHANGED <<pipeline, sample_idx, serverVars, result, twin, twinResult, repAt,
                   transition, wave, pcaVars, reader>>

SpecSmooth == UnitInit /\ [][SmoothUpdate \/ SmoothReset]_vars

(***************************************************************************)
(* C23.  The first update after construction or after reset() returns its  *)
(* input unchanged; every later update returns alpha * x + (1 - alpha) *   *)
(* the previous output; reset() leaves the smoother unset whatever it was  *)
(* fed before.                                                             *)
(***************************************************************************)
C23_SmootherIsExponentialAverage ==
    [][ /\ op' = "update" =>
              LET x == RInt(Last(smoothIn'))
                  out == Last(smoothOut')
              IN  /\ IF smoothIn = <<>> THEN out = x
                     ELSE RMul(RInt(SmoothAlpha.den), out)
                          = RAdd(RMul(RInt(SmoothAlpha.num), x),
                                 RMul(RInt(SmoothAlpha.den - SmoothAlpha.num),
                                      Last(smoothOut)))
                  /\ smoother'.value = Some(out)
        /\ op' = "reset" => smoother'.value = None ]_vars

\* after a reset that followed other inputs, a first update returned its
\* input and two more have mixed in theirs
C23_Witness ==
    /\ epoch = "reset"
    /\ op = "update"
    /\ Len(smoothIn) = 3
    /\ smoothOut[1] = RInt(smoothIn[1])
    /\ smoothOut[3] # smoothOut[2]
    /\ smoothOut[3] # RInt(smoothIn[3])

(***************************************************************************)
(* C24.  The smoother is causal: the output at index k is the output of a  *)
(* replay, on a smoother in the unset state, of the inputs up to k alone;  *)
(* so two input sequences that agree up to k give the same outputs up to   *)
(* k, whatever comes after.                                                *)
(***************************************************************************)
RECURSIVE C24_Replay(_, _)
C24_Replay(s, inputs) ==
    IF Len(inputs) = 1 THEN StreamingSmoother_update(s, RInt(inputs[1])).out
    ELSE C24_Replay(StreamingSmoother_update(s, RInt(inputs[1])).s, Tail(inputs))

MaxPcaCalls == 4
\* the samples fed to the projector
PcaSamples == {<<0, 0, 0>>, <<2, 0, 1>>, <<-1, 3, 0>>}

\* pc1_value = self.pca.update(raw)
PcaUpdate ==
    /\ Len(pcaIn) < MaxPcaCalls
    /\ \E x \in PcaSamples, eig \in EighResults :
          LET r == StreamingPCA_update(pca, AsArray(x), eig)
          IN  /\ pca' = r.p
              /\ pcaIn' = Append(pcaIn, x)
              /\ pcaOut' = Some(r.out)
              /\ pcaEig' = IF r.decomposed THEN Some(eig) ELSE None
    /\ op' = "update"
    /\ UNCHANGED <<pipeline, sample_idx, serverVars, result, twin, twinResult, repAt,
                   transition, epoch, wave, smoothVars, reader>>

\* self.pca = StreamingPCA(n_dims=3, warmup=pca_warmup)
PcaNew ==
    /\ pcaIn # <<>>
    /\ pca' = StreamingPCA_init(Warmup)
    /\ pcaIn' = <<>>
    /\ pcaOut' = None
    /\ pcaEig' = None
    /\ epoch' = "reset"
    /\ op' = "new"
    /\ UNCHANGED <<pipeline, sample_idx, serverVars, result, twin, twinResult, repAt,
                   transition, wave, smoothVars, reader>>

SpecPca == UnitInit /\ [][PcaUpdate \/ PcaNew]_vars

\* the sum of a sequence of integer samples, component by component
RECURSIVE SumVec(_)
SumVec(xs) ==
    IF xs = <<>> THEN <<0, 0, 0>>
    ELSE LET t == SumVec(Tail(xs)) IN [i \in 1 .. 3 |-> Head(xs)[i] + t[i]]

\* the arithmetic mean of a non-empty sequence of integer samples
MeanVec(xs) == [i \in 1 .. 3 |-> Rat(SumVec(xs)[i], Len(xs))]

(***************************************************************************)
(* C25.  After n update calls the projector's sample count is n and its    *)
(* running mean is the arithmetic mean of the n samples.                   *)
(***************************************************************************)
C25_RunningMeanIsArithmeticMean ==
    /\ pca.n = Len(pcaIn)
    /\ pcaIn # <<>> => pca.mean = MeanVec(pcaIn)

\* as many samples as the bound allows, not all alike, with a mean off the
\* integer grid
C25_Witness ==
    /\ Len(pcaIn) = MaxPcaCalls
    /\ pcaIn[1] # pcaIn[2]
    /\ \E i \in 1 .. 3 : pca.mean[i].den > 1

(***************************************************************************)
(* C26.  With warm-up N, each of the first N update calls returns the      *)
(* Euclidean norm of the centered sample and leaves the retained           *)
(* eigenvector unset; every later call returns the projection of the       *)
(* centered sample onto the dominant eigenvector and stores that           *)
(* eigenvector.                                                            *)
(***************************************************************************)
C26_WarmupReturnsNorm ==
    [][ op' = "update" =>
          LET centered == VSub(AsArray(Last(pcaIn')), MeanVec(pcaIn'))
              out == Val(pcaOut')
          IN  IF Len(pcaIn') <= Warmup
              THEN /\ out.kind = "norm"
                   /\ out.norm = Norm(centered)
                   /\ pca'.prev_pc1 = None
              ELSE /\ out.kind = "projection"
                   /\ pca'.prev_pc1 # None
                   /\ pcaEig' # None
                   /\ Val(pca'.prev_pc1) \in {Val(pcaEig'), VNeg(Val(pcaEig'))}
                   /\ out.value = Dot(centered, Val(pca'.prev_pc1)) ]_vars

(***************************************************************************)
(* C27.  After warm-up the eigenvector an update call retains has a        *)
(* non-negative dot product with the one the previous call retained: a     *)
(* freshly computed eigenvector that points against its predecessor is     *)
(* negated before it is stored and used for the projection.                *)
(***************************************************************************)
C27_EigenvectorSignLocked ==
    [][ (op' = "update" /\ pca.prev_pc1 # None) =>
          LET prev == Val(pca.prev_pc1)
              fresh == Val(pcaEig')
              kept == Val(pca'.prev_pc1)
              centered == VSub(AsArray(Last(pcaIn')), pca'.mean)
          IN  /\ ~RLess(Dot(kept, prev), RInt(0))
              /\ kept = IF RLess(Dot(fresh, prev), RInt(0)) THEN VNeg(fresh) ELSE fresh
              /\ Val(pcaOut').value = Dot(centered, kept) ]_vars

\* the last call computed an eigenvector pointing against its predecessor,
\* not the predecessor's opposite, and the projection is not zero
C27_Witness ==
    /\ op = "update"
    /\ pcaEig # None
    /\ pca.prev_pc1 # None
    /\ Val(pca.prev_pc1) = VNeg(Val(pcaEig))
    /\ Len(pcaIn) >= Warmup + 2
    /\ Val(pcaOut).value # RInt(0)

(***************************************************************************)
(* SpecReader: the reader thread in detail, line by line.  A line is what  *)
(* readline() or the file iteration yields: bytes that decode or do not,   *)
(* and the tokens split() makes of the text.                               *)
(***************************************************************************)
\* lines explored per reader
MaxLines == 3

Line(tokens) == [decodes |-> TRUE, tokens |-> tokens]

\* the lines a reader may meet: empty, too few and too many tokens, a token
\* that is no integer in the first and in the last place, two well-formed
\* lines, and bytes that are not UTF-8
Lines ==
    { Line(<<>>), Line(<<"12", "-7">>), Line(<<"12", "-7", "12", "-7">>),
      Line(<<"x", "12", "-7">>), Line(<<"12", "-7", "1.5">>),
      Line(<<"12", "-7", "12">>), Line(<<"-7", "-7", "12">>),
      [decodes |-> FALSE, tokens |-> <<>>] }

\* int(token) of the tokens that have one; int raises ValueError otherwise
IntValue == ("12" :> 12) @@ ("-7" :> -7)

\* what the statements from decode() to int() make of a line
ParseLine(line) ==
    IF ~line.decodes THEN [outcome |-> "UnicodeDecodeError", sample |-> <<>>]
    ELSE IF line.tokens = <<>> THEN [outcome |-> "empty", sample |-> <<>>]
    ELSE IF Len(line.tokens) # 3 THEN [outcome |-> "wrong_count", sample |-> <<>>]
    ELSE IF \E i \in 1 .. 3 : line.tokens[i] \notin DOMAIN IntValue
         THEN [outcome |-> "ValueError", sample |-> <<>>]
    ELSE [outcome |-> "sample", sample |-> [i \in 1 .. 3 |-> IntValue[line.tokens[i]]]]

\* the reader thread's steps leave everything of the loop alone
ReaderFrame ==
    UNCHANGED <<running, clients, pipeline, sample_idx, auto_detect_buffer, sample_queue,
                conn, hpc, nmsgs, consumer, handed, events, lastBroadcast, dropped, limits,
                sessionReps, discarded, result, twin, twinResult, repAt, transition, epoch,
                op, wave, smoothVars, pcaVars>>

\* _serial_reader: serial.Serial(...) succeeds
SerialOpen ==
    /\ running
    /\ reader.mode = "serial" /\ reader.pc = "idle"
    /\ reader' = [reader EXCEPT !.pc = "reading", !.port = "open", !.event = "open"]
    /\ UNCHANGED <<callbacks, produced>>
    /\ ReaderFrame

\* serial.Serial(...) raises SerialException: return
SerialOpenFailed ==
    /\ running
    /\ reader.mode = "serial" /\ reader.pc = "idle"
    /\ reader' = [reader EXCEPT !.pc = "no_port", !.event = "open_failed"]
    /\ UNCHANGED <<callbacks, produced>>
    /\ ReaderFrame

\* one turn of `while self.running' with readline() returning a line: the
\* except clauses turn ValueError and UnicodeDecodeError into `continue'
SerialReadLine ==
    /\ running
    /\ reader.mode = "serial" /\ reader.pc = "reading"
    /\ Len(reader.lines) < MaxLines
    /\ \E line \in Lines :
          LET r == ParseLine(line)
          IN  IF r.outcome = "sample"
              THEN /\ reader' = [reader EXCEPT !.lines = Append(@, line),
                                               !.sent = Append(@, r.sample),
                                               !.event = "line"]
                   /\ produced' = produced + 1
                   /\ callbacks' = Append(callbacks, produced + 1)
              ELSE /\ reader' = [reader EXCEPT !.lines = Append(@, line), !.event = "line"]
                   /\ UNCHANGED <<callbacks, produced>>
    /\ ReaderFrame

\* readline() raises SerialException: break, and finally arduino.close()
SerialDeviceFailure ==
    /\ running
    /\ reader.mode = "serial" /\ reader.pc = "reading"
    /\ reader' = [reader EXCEPT !.pc = "closed", !.port = "closed",
                                !.event = "device_failure"]
    /\ UNCHANGED <<callbacks, produced>>
    /\ ReaderFrame

\* _mock_reader: imu_data.txt exists and is opened
MockOpen ==
    /\ running
    /\ reader.mode = "mock" /\ reader.pc = "idle"
    /\ reader' = [reader EXCEPT !.pc = "loading", !.event = "open"]
    /\ UNCHANGED <<callbacks, produced>>
    /\ ReaderFrame

\* imu_data.txt does not exist: return
MockNoFile ==
    /\ running
    /\ reader.mode = "mock" /\ reader.pc = "idle"
    /\ reader' = [reader EXCEPT !.pc = "no_file", !.event = "open_failed"]
    /\ UNCHANGED <<callbacks, produced>>
    /\ ReaderFrame

\* one turn of `for line in f': a line of three tokens is converted and
\* appended to `samples'; no except clause stands around the conversion or
\* the iteration, so ValueError and UnicodeDecodeError leave _mock_reader
MockLoadLine ==
    /\ running
    /\ reader.mode = "mock" /\ reader.pc = "loading"
    /\ Len(reader.lines) < MaxLines
    /\ \E line \in Lines :
          LET r == ParseLine(line)
          IN  reader' = [reader EXCEPT
                           !.lines = Append(@, line),
                           !.samples = IF r.outcome = "sample" THEN Append(@, r.sample)
                                       ELSE @,
                           !.pc = IF r.outcome \in {"ValueError", "UnicodeDecodeError"}
                                  THEN "died" ELSE @,
                           !.event = "line"]
    /\ UNCHANGED <<callbacks, produced>>
    /\ ReaderFrame

\* the file is at its end: on to the wait for a viewer
MockLoadEnd ==
    /\ running
    /\ reader.mode = "mock" /\ reader.pc = "loading"
    /\ reader' = [reader EXCEPT !.pc = "waiting", !.event = "eof"]
    /\ UNCHANGED <<callbacks, produced>>
    /\ ReaderFrame

\* mutant of MockBegin: the replay starts without a viewer
MockBeginWithoutWaiting ==
    /\ running
    /\ reader.mode = "mock" /\ reader.pc = "waiting"
    /\ reader' = [reader EXCEPT !.pc = "replaying", !.event = "begin"]
    /\ UNCHANGED <<callbacks, produced>>
    /\ ReaderFrame

\* `while self.running and not self.clients: time.sleep(0.1)' ends: the
\* reader thread reads the viewer set
MockBegin ==
    /\ running
    /\ reader.mode = "mock" /\ reader.pc = "waiting"
    /\ clients # {}
    /\ reader' = [reader EXCEPT !.pc = "replaying", !.event = "begin"]
    /\ UNCHANGED <<callbacks, produced>>
    /\ ReaderFrame

\* one turn of `for i, sample in enumerate(samples)'
MockReplay ==
    /\ running
    /\ reader.mode = "mock" /\ reader.pc = "replaying"
    /\ Len(reader.sent) < Len(reader.samples)
    /\ reader' = [reader EXCEPT !.sent = Append(@, reader.samples[Len(reader.sent) + 1]),
                                !.event = "replay"]
    /\ produced' = produced + 1
    /\ callbacks' = Append(callbacks, produced + 1)
    /\ ReaderFrame

\* the replay is complete
MockEnd ==
    /\ running
    /\ reader.mode = "mock" /\ reader.pc = "replaying"
    /\ Len(reader.sent) = Len(reader.samples)
    /\ reader' = [reader EXCEPT !.pc = "done", !.event = "end"]
    /\ UNCHANGED <<callbacks, produced>>
    /\ ReaderFrame

\* RepServer.__init__ with mock False or True
ReaderInit ==
    /\ ServerIdle
    /\ limits = [samples |-> 0, msgs |-> 0, viewers |-> {"v1"}]
    /\ pipeline = None
    /\ sample_idx = 0
    /\ NoHarness
    /\ reader \in {ReaderAt(mode, "idle") : mode \in {"serial", "mock"}}

ReaderNext ==
    \/ Start
    \/ SerialOpen
    \/ SerialOpenFailed
    \/ SerialReadLine
    \/ SerialDeviceFailure
    \/ MockOpen
    \/ MockNoFile
    \/ MockLoadLine
    \/ MockLoadEnd
    \/ MockBegin
    \/ MockReplay
    \/ MockEnd
    \/ \E v \in Viewers : HandlerConnect(v)
    \/ \E v \in Viewers : HandlerSendDone(v)
    \/ \E v \in Viewers : HandlerSendFailed(v)
    \/ \E v \in Viewers : HandlerConnectionClosed(v)
    \/ \E v \in Viewers : ViewerDisconnect(v)

SpecReader == ReaderInit /\ [][ReaderNext]_vars

\* the reader thread is a thread of its own: once in the replay loop it
\* takes its next turn after time.sleep(0.15), whatever the loop does
SpecReplay == SpecReader /\ WF_vars(MockReplay) /\ WF_vars(MockEnd)

\* the line has exactly three tokens and each is an integer
C28_WellFormed(line) ==
    /\ line.decodes
    /\ Len(line.tokens) = 3
    /\ \A i \in 1 .. 3 : line.tokens[i] \in {"12", "-7"}

(***************************************************************************)
(* C28.  A line that is empty, has not exactly three tokens or has a token *)
(* that is no integer is discarded: nothing is enqueued for it and the     *)
(* read loop goes on with the next line; every well-formed line enqueues   *)
(* exactly one sample; the serial read loop ends only on a failure of the  *)
(* device, and the port is then closed.  (The replay reader enqueues the   *)
(* samples of its lines once the file is read: it ends reading at the end  *)
(* of the file, and when it is done every well-formed line has been        *)
(* enqueued once, in order.  Lines whose bytes do not decode are left out  *)
(* of the statement.)                                                      *)
(***************************************************************************)
C28_MalformedLinesDiscarded ==
    [][ /\ (reader'.event = "line" /\ reader' # reader /\ Last(reader'.lines).decodes) =>
              LET line == Last(reader'.lines)
                  enqueued == IF reader.mode = "serial" THEN reader.sent ELSE reader.samples
                  enqueued_ == IF reader.mode = "serial" THEN reader'.sent
                               ELSE reader'.samples
              IN  /\ reader'.pc = reader.pc
                  /\ IF C28_WellFormed(line)
                     THEN /\ Len(enqueued_) = Len(enqueued) + 1
                          /\ SubSeq(enqueued_, 1, Len(enqueued)) = enqueued
                          /\ reader.mode = "serial" =>
                                callbacks' = Append(callbacks, produced + 1)
                     ELSE /\ enqueued_ = enqueued
                          /\ callbacks' = callbacks
        /\ (reader.pc = "reading" /\ reader'.pc # "reading") =>
              reader'.event = "device_failure" /\ reader'.port = "closed"
        /\ (reader.pc = "loading" /\ reader'.pc # "loading") =>
              reader'.event = "eof" \/ ~Last(reader'.lines).decodes
        /\ reader'.pc = "done" =>
              /\ Len(reader'.sent) = Len(SelectSeq(reader'.lines, C28_WellFormed))
              /\ Len(callbacks') = Len(reader'.sent) ]_vars

(***************************************************************************)
(* C29.  The reader thread shares nothing with the loop but the handoff    *)
(* queue (and the stop signal): its steps write neither the viewer set,    *)
(* the orchestrator, the sample index nor the classification buffer, which *)
(* only steps of the loop change, and they read none of them, so that what *)
(* the reader can do next never depends on them: a reader waiting to       *)
(* replay can go on whatever the viewer set is.                            *)
(***************************************************************************)
C29_ReaderSharesOnlyTheQueue ==
    [][ /\ reader' # reader =>
              UNCHANGED <<clients, pipeline, sample_idx, auto_detect_buffer>>
        /\ (running /\ reader.pc = "waiting") => ENABLED MockBegin ]_vars

(***************************************************************************)
(* C30.  The detector's state changes only by hysteresis.  In              *)
(* WAITING_FOR_PEAK a process_sample call raises the tracked maximum to    *)
(* the centered value if that is larger, and moves to WAITING_FOR_VALLEY   *)
(* exactly when the centered value is more than 3 below the maximum,       *)
(* seeding the valley tracker with the centered value.  In                 *)
(* WAITING_FOR_VALLEY it lowers the tracked minimum likewise and moves     *)
(* back to WAITING_FOR_PEAK exactly when the centered value is more than 3 *)
(* above the minimum, re-seeding the peak tracker with the centered value  *)
(* whether or not a repetition was counted.                                *)
(***************************************************************************)
C30_StateChangesByHysteresis ==
    [][ op' = "process" =>
          LET d == counter
              e == counter'
              centered == Last(e.signal_history) * Scale - e.baseline
          IN  IF d.state = "WAITING_FOR_PEAK"
              THEN LET peak == IF d.current_peak = None \/ centered > Val(d.current_peak)
                               THEN centered ELSE Val(d.current_peak)
                   IN  /\ e.current_peak = Some(peak)
                       /\ IF centered < peak - 3 * Scale
                          THEN /\ e.state = "WAITING_FOR_VALLEY"
                               /\ e.current_valley = Some(centered)
                          ELSE /\ e.state = "WAITING_FOR_PEAK"
                               /\ e.current_valley = d.current_valley
              ELSE LET valley == Min2(Val(d.current_valley), centered)
                   IN  IF centered > valley + 3 * Scale
                       THEN /\ e.state = "WAITING_FOR_PEAK"
                            /\ e.current_peak = Some(centered)
                       ELSE /\ e.state = "WAITING_FOR_VALLEY"
                            /\ e.current_valley = Some(valley)
                            /\ e.current_peak = d.current_peak ]_vars

\* after a counted repetition, and so after both transitions, the centered
\* value has dropped below the tracked maximum by no more than the margin,
\* and the detector has stayed in WAITING_FOR_PEAK
C30_Witness ==
    /\ op = "process"
    /\ counter.rep_count >= 1
    /\ counter.state = "WAITING_FOR_PEAK"
    /\ LET centered == Last(counter.signal_history) * Scale - counter.baseline
       IN  /\ centered < Val(counter.current_peak)
           /\ centered >= Val(counter.current_peak) - 3 * Scale

(***************************************************************************)
(* C31.  The handoff queue never holds more samples than its capacity,     *)
(* however much faster the reader thread is than the consumer.             *)
(***************************************************************************)
C31_QueueWithinCapacity == Len(sample_queue) <= QueueMaxsize

\* the queue is full, a sample has been refused and another put_nowait is
\* scheduled
C31_Witness ==
    /\ Len(sample_queue) = QueueMaxsize
    /\ dropped # {}
    /\ callbacks # <<>>

(***************************************************************************)
(* C33.  The orchestrator is absent exactly until the first viewer         *)
(* connects and present ever after; a sample dequeued while it is absent   *)
(* is dropped, with no broadcast and no change of the sample index; and a  *)
(* classification buffer is open only while an orchestrator is present.    *)
(***************************************************************************)
C33_OrchestratorFromFirstConnect ==
    [][ /\ (pipeline' = None) <=> (\A v \in Viewers : conn'[v] = "new")
        /\ pipeline # None => pipeline' # None
        /\ (Dequeues /\ pipeline = None) =>
              /\ events' = events
              /\ handed' = handed
              /\ sample_idx' = sample_idx
              /\ pipeline' = None
              /\ consumer'.pc = "get"
        /\ auto_detect_buffer' # None => pipeline' # None ]_vars

\* before any viewer connected, the samples produced were dequeued and
\* dropped: nothing was handed over or broadcast
C33_Witness ==
    /\ pipeline = None
    /\ produced >= 2
    /\ callbacks = <<>>
    /\ sample_queue = <<>>
    /\ dropped = {}
    /\ consumer.pc = "get"
    /\ handed = <<>>
    /\ events = <<>>
    /\ sample_idx = 0

(***************************************************************************)
(* C34.  The detector's records agree with its count: rep_detection_       *)
(* samples and rep_amplitudes both have rep_count entries, every recorded  *)
(* amplitude exceeds amplitude_threshold, and the recorded valley indices  *)
(* are strictly increasing and none is greater than the sample index of    *)
(* the call that counted it.  The i-th repetition was counted by call      *)
(* repAt[i] since construction or reset, whose sample index is that of the *)
(* first call plus repAt[i] - 1.                                           *)
(***************************************************************************)
C34_RecordsAgreeWithCount ==
    LET d == counter
        first == sample_idx - Len(d.signal_history)
    IN  /\ Len(d.rep_detection_samples) = d.rep_count
        /\ Len(d.rep_amplitudes) = d.rep_count
        /\ Len(repAt) = d.rep_count
        /\ \A i \in DOMAIN d.rep_amplitudes :
              d.rep_amplitudes[i] > AmplitudeThreshold * Scale
        /\ \A i \in 1 .. Len(d.rep_detection_samples) - 1 :
              d.rep_detection_samples[i] < d.rep_detection_samples[i + 1]
        /\ \A i \in DOMAIN d.rep_detection_samples :
              /\ d.rep_detection_samples[i] >= first
              /\ d.rep_detection_samples[i] <= first + repAt[i] - 1

\* a detector reset in mid-session, whose sample indices therefore do not
\* start at 0, has counted two repetitions
C34_Witness ==
    /\ epoch = "counter_reset"
    /\ sample_idx > Len(counter.signal_history)
    /\ counter.rep_count = 2
    /\ counter.rep_detection_samples[1] < counter.rep_detection_samples[2]

(***************************************************************************)
(* C35.  After construction or reset no repetition is counted during the   *)
(* first min_samples_between_reps process_sample calls, whatever the       *)
(* input (an oscillation that completes in them is held back or too        *)
(* small); the earliest call that can count one is call number             *)
(* min_samples_between_reps + 1.  repAt holds the call numbers, since      *)
(* construction or reset, of the counted repetitions.                      *)
(***************************************************************************)
C35_NoRepDuringFirstCalls ==
    /\ \A i \in DOMAIN repAt : repAt[i] >= counter.min_samples_between_reps + 1
    /\ Len(counter.signal_history) <= counter.min_samples_between_reps =>
          /\ counter.rep_count = 0
          /\ transition \in {"none", "debounced", "small"}
    /\ Len(repAt) = counter.rep_count

\* a detector with spacing 4 was reset and its fifth call since then, the
\* first one past the spacing, counted a repetition
C35_Witness ==
    /\ epoch = "counter_reset"
    /\ counter.min_samples_between_reps > 3
    /\ repAt = <<counter.min_samples_between_reps + 1>>
    /\ Len(counter.signal_history) = counter.min_samples_between_reps + 1

(***************************************************************************)
(* C36.  The trackers match the state: the valley tracker is set exactly   *)
(* in WAITING_FOR_VALLEY, and there the peak tracker is set too and peak - *)
(* valley is more than 3, so process_sample never compares the centered    *)
(* value with an unset tracker.                                            *)
(***************************************************************************)
C36_TrackersMatchState ==
    LET d == counter
    IN  /\ (d.current_valley # None) <=> (d.state = "WAITING_FOR_VALLEY")
        /\ d.state = "WAITING_FOR_VALLEY" =>
              /\ d.current_peak # None
              /\ Val(d.current_peak) - Val(d.current_valley) > 3 * Scale
        /\ d.state \in {"WAITING_FOR_PEAK", "WAITING_FOR_VALLEY"}

\* back in WAITING_FOR_VALLEY after a counted repetition, with the valley
\* lowered since the state was entered
C36_Witness ==
    /\ counter.state = "WAITING_FOR_VALLEY"
    /\ counter.rep_count >= 1
    /\ counter.current_valley # None
    /\ Val(counter.valley_sample_idx) = sample_idx - 1
    /\ Len(counter.signal_history) >= 2
    /\ transition = "none"
    /\ Val(counter.valley_sample_idx) > Val(counter.peak_sample_idx) + 1

\* the samples of a trace: its well-formed lines, converted, in file order
RECURSIVE C32_TraceSamples(_)
C32_TraceSamples(lines) ==
    IF lines = <<>> THEN <<>>
    ELSE LET rest == C32_TraceSamples(SubSeq(lines, 1, Len(lines) - 1))
             line == lines[Len(lines)]
         IN  IF C28_WellFormed(line)
             THEN Append(rest, [i \in 1 .. 3 |-> IF line.tokens[i] = "12" THEN 12 ELSE -7])
             ELSE rest

\* what holds of the replay in every state
C32_Replayed ==
    reader.mode = "mock" =>
       /\ produced > 0 => \E v \in Viewers : conn[v] # "new"
       /\ produced = Len(reader.sent)
       /\ callbacks = [i \in 1 .. Len(reader.sent) |-> i]
       /\ reader.samples = C32_TraceSamples(reader.lines)
       /\ Len(reader.sent) <= Len(reader.samples)
       /\ reader.sent = SubSeq(reader.samples, 1, Len(reader.sent))
       /\ reader.pc \in {"idle", "loading", "waiting", "no_file", "died"} => produced = 0
       /\ reader.pc = "done" => reader.sent = reader.samples
       /\ (running /\ reader.pc = "replaying" /\ Len(reader.sent) < Len(reader.samples)) =>
             ENABLED MockReplay

\* what holds of every step that enqueues
C32_Enqueues ==
    (reader.mode = "mock" /\ produced' # produced) =>
       /\ reader.pc = "replaying" /\ reader'.pc = "replaying"
       /\ reader'.sent = Append(reader.sent, reader.samples[Len(reader.sent) + 1])
       /\ reader'.samples = reader.samples
       /\ callbacks' = Append(callbacks, produced + 1)

(***************************************************************************)
(* C32.  In mock mode no sample is enqueued before the first viewer has    *)
(* connected; after that the samples of the trace are enqueued once each,  *)
(* in file order, until the trace ends (the running flag is never cleared),*)
(* and the replay goes on even if every viewer disconnects meanwhile: a    *)
(* replay that has begun reaches its end with every sample enqueued.       *)
(***************************************************************************)
C32_ReplayAfterFirstViewer ==
    /\ []C32_Replayed
    /\ [][C32_Enqueues]_vars
    /\ (reader.pc = "replaying") ~> (reader.pc = "done" /\ reader.sent = reader.samples)

\* the only viewer has left in the middle of the replay of a trace of three
\* samples
C32_Witness ==
    /\ reader.mode = "mock" /\ reader.pc = "replaying"
    /\ clients = {}
    /\ \A v \in limits.viewers : hpc[v] = "done"
    /\ Len(reader.samples) = 3
    /\ Len(reader.sent) = 1

====
